---- MODULE Spec2Model ----
(***************************************************************************)
(* Model of the resumable harvesting pipeline of Foraxo-Leaf/scraper: the  *)
(* SQLite store (items and files tables), the discoverers that upsert      *)
(* items, and the retrying resource downloader.  The repository holds two  *)
(* implementations, AR (src/AR/scraper.py) and BR (src/BR/*.py); the       *)
(* variable impl selects which one a behaviour runs.                       *)
(***************************************************************************)
EXTENDS Integers, Sequences, FiniteSets, TLC

VARIABLES impl, items, files, last, firstId, firstFile, procs, dl, disk, hv, batch, kw

vars == <<impl, items, files, last, firstId, firstFile, procs, dl, disk, hv, batch, kw>>

(* ---------------------------------------------------------------------- *)
(* Bounds                                                                  *)
(* ---------------------------------------------------------------------- *)
MaxItems == 3
MaxFiles == 2
MaxRetriesBound == 4

(* ---------------------------------------------------------------------- *)
(* Value domains                                                           *)
(* ---------------------------------------------------------------------- *)
Impl == {"AR", "BR"}
NoneV == "none"
URLs == {"u1", "u2"}
OAIs == {"o1", "o2"}
Modes == {"oai", "keyword_search"}

(* An OAI record: its header identifier, the item page URL derived from it *)
(* (AR: _get_item_page_url, BR: item_page_url_from_oai, which may be       *)
(* absent) and whether a direct PDF URL is among its identifiers.          *)
Records ==
  { [oai |-> "o1", url |-> "u1", pdf |-> TRUE],
    [oai |-> "o2", url |-> "u2", pdf |-> FALSE] }

RecordsBR ==
  { [oai |-> "o1", url |-> "u1", pdf |-> TRUE],
    [oai |-> "o2", url |-> NoneV, pdf |-> FALSE] }

(* The identifier the BR keyword searcher synthesises for a page URL.      *)
KeywordOai(u) == IF u = "u1" THEN "k1" ELSE "k2"

STATUS_PROCESSED == "processed"

(* Statuses the orchestrators write with update_item_status.               *)
OrchStatusesAR == {"processing", "processed", "error"}
OrchStatusesBR == {"processing_pdf_download", "processed", "error_pdf_download"}

(* ---------------------------------------------------------------------- *)
(* items table                                                             *)
(* ---------------------------------------------------------------------- *)
Min(S) == CHOOSE x \in S : \A y \in S : x <= y

(* SELECT item_id FROM items WHERE item_page_url = ? ; fetchone(): 0 if no row *)
SelectItemByUrl(its, u) ==
  LET hit == {i \in DOMAIN its : u # NoneV /\ its[i].url = u}
  IN IF hit = {} THEN 0 ELSE Min(hit)

(* SELECT item_id FROM items WHERE oai_identifier = ? ; fetchone()          *)
SelectItemByOai(its, o) ==
  LET hit == {i \in DOMAIN its : o # NoneV /\ its[i].oai = o}
  IN IF hit = {} THEN 0 ELSE Min(hit)

ItemRow(a) == [oai |-> a.oai, url |-> a.url, mode |-> a.mode, status |-> a.status]

(* The result of a store call: the table, the returned id (0 = None), the  *)
(* returned status, whether a row was created, whether the INSERT raised   *)
(* sqlite3.IntegrityError.                                                 *)
Result(its, id, st, new, integ) ==
  [items |-> its, id |-> id, status |-> st, new |-> new, integrity |-> integ]

(* DatabaseManager.get_or_create_item_by_url (AR), after its SELECT gave   *)
(* row (0 = no row) with status seen: an existing row gets the requested   *)
(* status when it differs; otherwise a new row is inserted.  The AR items  *)
(* table has no UNIQUE constraint, so the INSERT always succeeds.          *)
item_write_ar(its, a, row, seen) ==
  IF row # 0
    THEN IF seen # a.status
           THEN Result([its EXCEPT ![row].status = a.status], row, a.status, FALSE, FALSE)
           ELSE Result(its, row, seen, FALSE, FALSE)
    ELSE Result(Append(its, ItemRow(a)), Len(its) + 1, a.status, TRUE, FALSE)

get_or_create_item_by_url_always_insert(its, a) ==
  Result(Append(its, ItemRow(a)), Len(its) + 1, a.status, TRUE, FALSE)

get_or_create_item_by_url(its, a) ==
  LET row == SelectItemByUrl(its, a.url)
  IN item_write_ar(its, a, row, IF row # 0 THEN its[row].status ELSE NoneV)

(* The lookup of DatabaseManagerBR.get_or_create_item: by OAI identifier,  *)
(* then by item page URL.                                                  *)
LookupItemBR(its, a) ==
  LET byOai == SelectItemByOai(its, a.oai)
  IN IF byOai # 0 THEN byOai ELSE SelectItemByUrl(its, a.url)

(* UNIQUE(oai_identifier), UNIQUE(item_page_url) of the BR items table.    *)
ItemUniqueViolation(its, a) ==
  \E i \in DOMAIN its :
     \/ a.oai # NoneV /\ its[i].oai = a.oai
     \/ a.url # NoneV /\ its[i].url = a.url

(* DatabaseManagerBR.get_or_create_item after its lookup gave row: an      *)
(* existing row is returned untouched; otherwise INSERT, which raises      *)
(* IntegrityError when a UNIQUE column collides.                           *)
item_write_br(its, a, row) ==
  IF row # 0
    THEN Result(its, row, its[row].status, FALSE, FALSE)
  ELSE IF ItemUniqueViolation(its, a)
    THEN Result(its, 0, NoneV, FALSE, TRUE)
    ELSE Result(Append(its, ItemRow(a)), Len(its) + 1, a.status, TRUE, FALSE)

(* The except-IntegrityError branch: rollback, re-read by OAI id, by URL.  *)
item_refetch_br(its, a) ==
  LET row == LookupItemBR(its, a)
  IN IF row # 0 THEN Result(its, row, its[row].status, FALSE, FALSE)
               ELSE Result(its, 0, NoneV, FALSE, FALSE)

get_or_create_item(its, a) ==
  IF a.oai = NoneV /\ a.url = NoneV
    THEN Result(its, 0, NoneV, FALSE, FALSE)
    ELSE LET w == item_write_br(its, a, LookupItemBR(its, a))
         IN IF w.integrity THEN item_refetch_br(its, a) ELSE w

(* update_item_status (AR and BR): unconditional UPDATE of one row.        *)
update_item_status(its, id, s) ==
  IF id \in DOMAIN its THEN [its EXCEPT ![id].status = s] ELSE its

(* Canonical key of a call or of a row: the page URL, else the OAI id.     *)
CanonKey(r) == IF r.url # NoneV THEN r.url ELSE r.oai

Keys == URLs \cup OAIs \cup {KeywordOai(u) : u \in URLs}

RowsForKey(its, k) == {i \in DOMAIN its : CanonKey(its[i]) = k}

(* ---------------------------------------------------------------------- *)
(* Sequential use of the items table: discoverers and orchestrator         *)
(* ---------------------------------------------------------------------- *)
FileURLs == {"f1", "f2"}
FileTypes == {"pdf", "image_thumbnail"}
Paths == {"p1", "p2"}
FileItems == {1}
FileKeys == FileItems \X FileURLs
NoFirstFile == [k \in FileKeys |-> 0]

NoLast == [op |-> "none"]

IdleProcs == [p \in {1, 2} |-> [pc |-> "idle"]]
download_max_retries == 3
IdleDl(mr) == [pc |-> "idle", max_retries |-> mr]
NoDisk == [p \in Paths |-> "absent"]

(* No harvest has run: OAIHarvester / OAIHarvesterBR just constructed.     *)
NoToken == ""
NoParams == [verb |-> NoneV, metadataPrefix |-> FALSE, set |-> FALSE,
             resumptionToken |-> NoToken, page |-> 0]
IdleHv ==
  [caller |-> NoneV, pc |-> "idle", repo |-> 0, token |-> NoToken, first_request |-> TRUE,
   reqs |-> 0, pages |-> 0, sent |-> NoParams, request_attempts |-> 0,
   delays |-> << >>, resp |-> NoneV, resp_code |-> NoneV, resp_token |-> NoToken,
   repeat |-> FALSE, records_seen |-> {},
   end |-> NoneV, identifiers |-> << >>, served |-> 0, upserts |-> 0,
   created |-> {}, deleted_seen |-> {}, ends |-> << >>,
   max_records |-> 0, fetched |-> 0]

(* No batch has run.                                                       *)
NoItemYet == [id |-> 0, stage |-> NoneV, resolver |-> NoneV, dl_invoked |-> FALSE,
              critical |-> NoneV, noncritical |-> NoneV, status |-> NoneV,
              raised |-> FALSE, escaped |-> FALSE, store_failed |-> FALSE]
IdleBatch == [pc |-> "idle", run |-> 0, stage |-> NoneV, queue |-> << >>, i |-> 0,
              raised |-> {}, handled |-> {}, last |-> NoItemYet,
              limit |-> 0, clock |-> 0, stamps |-> << >>, counts |-> << >>,
   resolved |-> << >>]

(* No keyword search has run.                                              *)
IdleKw == [pc |-> "idle", keyword |-> 0, page_count |-> 0, resp |-> NoneV,
           end |-> NoneV, ends |-> << >>, offered |-> {}]

InitItems ==
  /\ impl \in Impl
  /\ items = << >>
  /\ files = << >>
  /\ last = NoLast
  /\ firstId = [k \in Keys |-> 0]
  /\ firstFile = NoFirstFile
  /\ procs = IdleProcs
  /\ dl = IdleDl(download_max_retries)
  /\ disk = NoDisk
  /\ hv = IdleHv
  /\ batch = IdleBatch
  /\ kw = IdleKw

(* What a caller of the upsert remembers: the id its first call for a key  *)
(* returned (database_manager_br.py __main__, Test 1).                     *)
Remember(fi, a, id) ==
  IF fi[CanonKey(a)] = 0 THEN [fi EXCEPT ![CanonKey(a)] = id] ELSE fi

UpsertDone(a, r, opname) ==
  /\ Len(r.items) <= MaxItems
  /\ items' = r.items
  /\ last' = [op |-> opname, key |-> CanonKey(a), mode |-> a.mode,
              id |-> r.id, status |-> r.status, new |-> r.new]
  /\ firstId' = Remember(firstId, a, r.id)
  /\ UNCHANGED <<impl, files, firstFile, procs, dl, disk, hv, batch, kw>>

(* Scraper.run, OAI discovery phase (AR): one harvested identifier.        *)
AR_RegisterOAI(rec) ==
  /\ impl = "AR"
  /\ rec.url # NoneV
  /\ LET a == [oai |-> rec.oai, url |-> rec.url, mode |-> "oai",
               status |-> "pending_download"]
     IN UpsertDone(a, get_or_create_item_by_url(items, a), "discover")

(* KeywordSearcher.search_and_register (AR): one result link.              *)
AR_RegisterKeyword(u) ==
  /\ impl = "AR"
  /\ LET a == [oai |-> NoneV, url |-> u, mode |-> "keyword_search",
               status |-> "pending_download"]
     IN UpsertDone(a, get_or_create_item_by_url(items, a), "discover")

harvest_record_no_pdf(its, rec, repo) ==
  get_or_create_item(its, [oai |-> rec.oai, url |-> rec.url, mode |-> repo,
                           status |-> "pending_pdf_link"])

(* OAIHarvesterBR.harvest_repository, body of the record loop: upsert,     *)
(* then 'pending_pdf_download' when the record carried a direct PDF URL.   *)
harvest_record(its, rec, repo) ==
  LET a == [oai |-> rec.oai, url |-> rec.url, mode |-> repo,
            status |-> "pending_pdf_link"]
      r == get_or_create_item(its, a)
  IN IF r.id # 0 /\ rec.pdf
       THEN [r EXCEPT !.items = update_item_status(r.items, r.id, "pending_pdf_download"),
                      !.status = "pending_pdf_download"]
       ELSE r

ReposBR == {"alice", "infoteca-e"}

BR_HarvestRecord(rec, repo) ==
  /\ impl = "BR"
  /\ LET a == [oai |-> rec.oai, url |-> rec.url, mode |-> repo,
               status |-> "pending_pdf_link"]
     IN UpsertDone(a, harvest_record(items, rec, repo), "discover")

(* A direct call of DatabaseManagerBR.get_or_create_item with the          *)
(* arguments the keyword searcher builds (synthetic identifier + URL).     *)
BR_GetOrCreateItem(u) ==
  /\ impl = "BR"
  /\ LET a == [oai |-> KeywordOai(u), url |-> u, mode |-> "keyword_search_embrapa",
               status |-> "pending_html_processing"]
     IN UpsertDone(a, get_or_create_item(items, a), "upsert")

(* The orchestrator's status writes.                                       *)
UpdateItemStatus(id, s) ==
  /\ id \in DOMAIN items
  /\ s \in (IF impl = "AR" THEN OrchStatusesAR ELSE OrchStatusesBR)
  /\ items' = update_item_status(items, id, s)
  /\ last' = [op |-> "update_item_status", key |-> CanonKey(items[id]),
              mode |-> items[id].mode, id |-> id, status |-> s, new |-> FALSE]
  /\ UNCHANGED <<impl, files, firstId, firstFile, procs, dl, disk, hv, batch, kw>>

NextItems ==
  \/ \E rec \in Records : AR_RegisterOAI(rec)
  \/ \E u \in URLs : AR_RegisterKeyword(u)
  \/ \E rec \in RecordsBR, repo \in ReposBR : BR_HarvestRecord(rec, repo)
  \/ \E u \in URLs : BR_GetOrCreateItem(u)
  \/ \E id \in 1..MaxItems, s \in OrchStatusesAR \cup OrchStatusesBR : UpdateItemStatus(id, s)

SpecItems == InitItems /\ [][NextItems]_vars

IsUpsert(l) == l.op \in {"discover", "upsert"}

\* C1: after every upsert_item call, the key it was called with has exactly
\* one Item row, and the call returned the item_id that the first call for
\* that key returned, whatever discovery_mode the two calls carried.
C1_IdempotentUpsert ==
  IsUpsert(last) =>
     /\ Cardinality(RowsForKey(items, last.key)) = 1
     /\ last.id = firstId[last.key]

(* A second call for a key, with a discovery mode other than the stored one. *)
C1_Witness ==
  /\ IsUpsert(last)
  /\ ~last.new
  /\ last.id \in DOMAIN items
  /\ items[last.id].mode # last.mode

\* C2: a re-discovery (an upsert by a harvest or keyword-search pass) never
\* moves an Item that is 'processed' to another status.
C2_NoRegress ==
  [][\A i \in DOMAIN items :
        (items[i].status = STATUS_PROCESSED /\ last'.op = "discover" /\ last' # last)
           => items'[i].status = STATUS_PROCESSED]_vars

(* ---------------------------------------------------------------------- *)
(* files table                                                             *)
(* ---------------------------------------------------------------------- *)
FILE_DOWNLOAD_SUCCESS == "success"
FILE_DOWNLOAD_SKIPPED_EXIST == "skipped_exist"

FileStatusesAR == {"downloaded", "skipped_exists", "failed_timeout"}
FileStatusesBR == {"success", "failed", "skipped_exist"}

FileArgs(sts) ==
  [item : FileItems, type : FileTypes, url : FileURLs,
   path : Paths \cup {NoneV}, status : sts]

(* ts: whether download_timestamp is non-NULL.                             *)
FileRow(a, ts) ==
  [item |-> a.item, type |-> a.type, url |-> a.url, path |-> a.path,
   status |-> a.status, ts |-> ts]

FileResult(fs, id, new, integ) ==
  [files |-> fs, id |-> id, new |-> new, integrity |-> integ]

(* SELECT file_id FROM files WHERE item_id = ? AND remote_url = ?          *)
SelectFileByUrl(fs, item, url) ==
  LET hit == {i \in DOMAIN fs : fs[i].item = item /\ fs[i].url = url}
  IN IF hit = {} THEN 0 ELSE Min(hit)

(* DatabaseManager.log_file (AR) after its SELECT gave row: UPDATE that    *)
(* row or INSERT; download_timestamp is always stamped.  Returns nothing.  *)
file_write_ar(fs, a, row) ==
  IF row # 0
    THEN FileResult([fs EXCEPT ![row].path = a.path, ![row].status = a.status,
                               ![row].ts = TRUE], 0, FALSE, FALSE)
    ELSE FileResult(Append(fs, FileRow(a, TRUE)), 0, TRUE, FALSE)

log_file(fs, a) == file_write_ar(fs, a, SelectFileByUrl(fs, a.item, a.url))

(* SELECT file_id FROM files WHERE local_path = ? AND item_id = ? AND file_type = ? *)
SelectFileByPath(fs, a) ==
  LET hit == {i \in DOMAIN fs : a.path # NoneV /\ fs[i].path = a.path
                                 /\ fs[i].item = a.item /\ fs[i].type = a.type}
  IN IF hit = {} THEN 0 ELSE Min(hit)

(* SELECT file_id FROM files WHERE item_id = ? AND file_type = ? AND file_url = ? *)
SelectFileByTypeUrl(fs, a) ==
  LET hit == {i \in DOMAIN fs : fs[i].item = a.item /\ fs[i].type = a.type
                                 /\ fs[i].url = a.url}
  IN IF hit = {} THEN 0 ELSE Min(hit)

(* UNIQUE(local_path) of the BR files table, for a row other than self.    *)
PathTaken(fs, path, self) ==
  path # NoneV /\ \E i \in DOMAIN fs : i # self /\ fs[i].path = path

(* DatabaseManagerBR.log_file_download after its SELECTs gave byPath and   *)
(* byUrl: update the row found by path; else update the row found by URL   *)
(* unless the status is 'skipped_exist'; else INSERT.  A sqlite3.Error     *)
(* (here: UNIQUE(local_path)) rolls back and returns None (id 0).          *)
file_write_br(fs, a, byPath, byUrl) ==
  LET ts == (a.status = FILE_DOWNLOAD_SUCCESS)
  IN IF byPath # 0
       THEN FileResult([fs EXCEPT ![byPath].url = a.url, ![byPath].status = a.status,
                                  ![byPath].ts = ts], byPath, FALSE, FALSE)
     ELSE IF byUrl # 0 /\ a.status # FILE_DOWNLOAD_SKIPPED_EXIST
       THEN IF PathTaken(fs, a.path, byUrl)
              THEN FileResult(fs, 0, FALSE, TRUE)
              ELSE FileResult([fs EXCEPT ![byUrl].path = a.path, ![byUrl].status = a.status,
                                         ![byUrl].ts = ts], byUrl, FALSE, FALSE)
     ELSE IF PathTaken(fs, a.path, 0)
       THEN FileResult(fs, 0, FALSE, TRUE)
       ELSE FileResult(Append(fs, FileRow(a, ts)), Len(fs) + 1, TRUE, FALSE)

log_file_download(fs, a) ==
  LET byPath == SelectFileByPath(fs, a)
  IN file_write_br(fs, a, byPath, IF byPath # 0 THEN 0 ELSE SelectFileByTypeUrl(fs, a))

RowsForFile(fs, item, url) == {i \in DOMAIN fs : fs[i].item = item /\ fs[i].url = url}

(* ---------------------------------------------------------------------- *)
(* Sequential use of the files table                                       *)
(* ---------------------------------------------------------------------- *)
InitFiles == InitItems

RememberFile(ff, a, id) ==
  IF ff[<<a.item, a.url>>] = 0 THEN [ff EXCEPT ![<<a.item, a.url>>] = id] ELSE ff

LogDone(a, r) ==
  /\ Len(r.files) <= MaxFiles
  /\ files' = r.files
  /\ last' = [op |-> "log_file", item |-> a.item, url |-> a.url, path |-> a.path,
              status |-> a.status, id |-> r.id, new |-> r.new, integrity |-> r.integrity]
  /\ firstFile' = RememberFile(firstFile, a, r.id)
  /\ UNCHANGED <<impl, items, firstId, procs, dl, disk, hv, batch, kw>>

AR_LogFile(a) ==
  /\ impl = "AR"
  /\ LogDone(a, log_file(files, a))

BR_LogFileDownload(a) ==
  /\ impl = "BR"
  /\ LogDone(a, log_file_download(files, a))

NextFiles ==
  \/ \E a \in FileArgs(FileStatusesAR) : AR_LogFile(a)
  \/ \E a \in FileArgs(FileStatusesBR) : BR_LogFileDownload(a)

SpecFiles == InitFiles /\ [][NextFiles]_vars

\* C5: after every upsert_file_result call there is exactly one FileArtifact
\* row for its (item_id, remote_url), that row holds the call's outcome
\* (status and local_path), and a call that returns a file id returns the id
\* the first call for that key returned.
C5_OneRowPerFileKey ==
  last.op = "log_file" =>
     /\ Cardinality(RowsForFile(files, last.item, last.url)) = 1
     /\ \A i \in RowsForFile(files, last.item, last.url) :
           files[i].status = last.status /\ files[i].path = last.path
     /\ impl = "BR" => last.id = firstFile[<<last.item, last.url>>]

(* ---------------------------------------------------------------------- *)
(* Two processes on one store: each call is a SELECT step (two in BR),     *)
(* then a write step that commits; sqlite serialises the statements, not   *)
(* the calls.                                                              *)
(* ---------------------------------------------------------------------- *)
Procs == {1, 2}

RaceItemArgsAR ==
  { [oai |-> r.oai, url |-> r.url, mode |-> "oai", status |-> "pending_download"] :
      r \in {x \in Records : x.url = "u1"} }
  \cup { [oai |-> NoneV, url |-> "u1", mode |-> "keyword_search", status |-> "pending_download"] }

RaceItemArgsBR ==
  { [oai |-> r.oai, url |-> r.url, mode |-> repo, status |-> "pending_pdf_link"] :
      r \in RecordsBR, repo \in {"alice"} }
  \cup { [oai |-> KeywordOai("u1"), url |-> "u1", mode |-> "keyword_search_embrapa",
          status |-> "pending_html_processing"] }

RaceFileArgsAR ==
  { a \in FileArgs(FileStatusesAR) : a.url = "f1" /\ a.type = "pdf" /\ a.path # "p2" }

RaceFileArgsBR ==
  { a \in FileArgs(FileStatusesBR) : a.url = "f1" /\ a.type = "pdf" /\ a.path # "p2" }

InitRace == InitItems

Proc(pc, op, a, row, seen, id) ==
  [pc |-> pc, op |-> op, a |-> a, row |-> row, seen |-> seen, id |-> id]

(* A process enters get_or_create_item(_by_url): nothing executed yet.     *)
RaceCallItem(p, a) ==
  /\ procs[p].pc \in {"idle", "done"}
  /\ a \in (IF impl = "AR" THEN RaceItemArgsAR ELSE RaceItemArgsBR)
  /\ procs' = [procs EXCEPT ![p] = Proc("select", "item", a, 0, NoneV, 0)]
  /\ UNCHANGED <<impl, items, files, last, firstId, firstFile, dl, disk, hv, batch, kw>>

(* A process enters log_file / log_file_download.                          *)
RaceCallFile(p, a) ==
  /\ procs[p].pc \in {"idle", "done"}
  /\ a \in (IF impl = "AR" THEN RaceFileArgsAR ELSE RaceFileArgsBR)
  /\ procs' = [procs EXCEPT ![p] = Proc("select", "file", a, 0, NoneV, 0)]
  /\ UNCHANGED <<impl, items, files, last, firstId, firstFile, dl, disk, hv, batch, kw>>

(* The first SELECT of the call.                                           *)
RaceSelect(p) ==
  /\ procs[p].pc = "select"
  /\ LET q == procs[p]
         row == IF q.op = "item"
                  THEN IF impl = "AR" THEN SelectItemByUrl(items, q.a.url)
                                      ELSE SelectItemByOai(items, q.a.oai)
                  ELSE IF impl = "AR" THEN SelectFileByUrl(files, q.a.item, q.a.url)
                                      ELSE SelectFileByPath(files, q.a)
         seen == IF q.op = "item" /\ row # 0 THEN items[row].status ELSE NoneV
         second == impl = "BR" /\ row = 0 /\ (q.op = "file" \/ q.a.url # NoneV)
     IN procs' = [procs EXCEPT ![p] =
                    Proc(IF second THEN "select2" ELSE "write", q.op, q.a, row, seen, 0)]
  /\ UNCHANGED <<impl, items, files, last, firstId, firstFile, dl, disk, hv, batch, kw>>

(* The second SELECT of the BR calls (by page URL; by item, type and URL). *)
(* For a file call the row found here is kept negative to tell it from a   *)
(* row found by path.                                                      *)
RaceSelect2(p) ==
  /\ procs[p].pc = "select2"
  /\ LET q == procs[p]
         row == IF q.op = "item" THEN SelectItemByUrl(items, q.a.url)
                                 ELSE 0 - SelectFileByTypeUrl(files, q.a)
     IN procs' = [procs EXCEPT ![p] = Proc("write", q.op, q.a, row, NoneV, 0)]
  /\ UNCHANGED <<impl, items, files, last, firstId, firstFile, dl, disk, hv, batch, kw>>

(* The UPDATE or INSERT and its commit, on the rows the SELECTs returned.  *)
RaceWriteItem(p) ==
  /\ procs[p].pc = "write"
  /\ procs[p].op = "item"
  /\ LET q == procs[p]
         r == IF impl = "AR" THEN item_write_ar(items, q.a, q.row, q.seen)
                             ELSE item_write_br(items, q.a, q.row)
     IN /\ Len(r.items) <= MaxItems
        /\ items' = r.items
        /\ procs' = [procs EXCEPT ![p] =
                       Proc(IF r.integrity THEN "refetch" ELSE "done", q.op, q.a, q.row, q.seen, r.id)]
  /\ UNCHANGED <<impl, files, last, firstId, firstFile, dl, disk, hv, batch, kw>>

(* except sqlite3.IntegrityError: rollback and re-read (BR).               *)
RaceRefetchItem(p) ==
  /\ procs[p].pc = "refetch"
  /\ LET q == procs[p]
         r == item_refetch_br(items, q.a)
     IN procs' = [procs EXCEPT ![p] = Proc("done", q.op, q.a, q.row, q.seen, r.id)]
  /\ UNCHANGED <<impl, items, files, last, firstId, firstFile, dl, disk, hv, batch, kw>>

RaceWriteFile(p) ==
  /\ procs[p].pc = "write"
  /\ procs[p].op = "file"
  /\ LET q == procs[p]
         r == IF impl = "AR"
                THEN file_write_ar(files, q.a, q.row)
                ELSE file_write_br(files, q.a, IF q.row > 0 THEN q.row ELSE 0,
                                               IF q.row < 0 THEN 0 - q.row ELSE 0)
     IN /\ Len(r.files) <= MaxFiles
        /\ files' = r.files
        /\ procs' = [procs EXCEPT ![p] = Proc("done", q.op, q.a, q.row, q.seen, r.id)]
  /\ UNCHANGED <<impl, items, last, firstId, firstFile, dl, disk, hv, batch, kw>>

NextRaceItems ==
  \/ \E p \in Procs, a \in RaceItemArgsAR \cup RaceItemArgsBR : RaceCallItem(p, a)
  \/ \E p \in Procs : RaceSelect(p)
  \/ \E p \in Procs : RaceSelect2(p)
  \/ \E p \in Procs : RaceWriteItem(p)
  \/ \E p \in Procs : RaceRefetchItem(p)

SpecRaceItems == InitRace /\ [][NextRaceItems]_vars

NextRaceFiles ==
  \/ \E p \in Procs, a \in RaceFileArgsAR \cup RaceFileArgsBR : RaceCallFile(p, a)
  \/ \E p \in Procs : RaceSelect(p)
  \/ \E p \in Procs : RaceSelect2(p)
  \/ \E p \in Procs : RaceWriteFile(p)

SpecRaceFiles == InitRace /\ [][NextRaceFiles]_vars

BothDone(op) == \A p \in Procs : procs[p].pc = "done" /\ procs[p].op = op

\* C3: when two concurrent upsert_item calls for the same key have both
\* returned, the store holds exactly one Item row for that key and both
\* calls returned that row's id (never None).
C3_RaceSafeUpsert ==
  (BothDone("item") /\ CanonKey(procs[1].a) = CanonKey(procs[2].a)) =>
     /\ Cardinality(RowsForKey(items, CanonKey(procs[1].a))) = 1
     /\ \A p \in Procs : procs[p].id \in RowsForKey(items, CanonKey(procs[1].a))

\* C4: when two concurrent upsert_file_result calls for the same
\* (item_id, remote_url) have both returned, the store holds exactly one
\* FileArtifact row for that pair.
C4_RaceOneFileRow ==
  (BothDone("file") /\ procs[1].a.item = procs[2].a.item /\ procs[1].a.url = procs[2].a.url) =>
     Cardinality(RowsForFile(files, procs[1].a.item, procs[1].a.url)) = 1

(* ---------------------------------------------------------------------- *)
(* Resource downloader                                                     *)
(* ---------------------------------------------------------------------- *)
download_base_retry_delay == 5

RECURSIVE Pow2(_)
Pow2(n) == IF n <= 0 THEN 1 ELSE 2 * Pow2(n - 1)

(* retry_delay = base * (2 ** (attempts - 1)), slept before retry number   *)
(* attempts >= 1.                                                          *)
RetryDelay_decaying(attempts) == download_base_retry_delay \div attempts

RetryDelay(attempts) == download_base_retry_delay * Pow2(attempts - 1)

(* What one requests.get + streaming attempt can end in.                   *)
Outcomes ==
  {"ok", "timeout", "http_404", "http_408", "http_429", "http_500",
   "network_error", "midstream", "exception"}

HttpCode(o) ==
  CASE o = "http_404" -> 404
    [] o = "http_408" -> 408
    [] o = "http_429" -> 429
    [] o = "http_500" -> 500
    [] OTHER -> 0

(* AR: 400 <= status_code < 500 and status_code != 429 -> break            *)
ClientErrorBreakAR(code) == 400 <= code /\ code < 500 /\ code # 429

(* BR: ... and status_code not in [408, 429] -> break                      *)
ClientErrorBreakBR(code) == 400 <= code /\ code < 500 /\ code \notin {408, 429}

ClientErrorBreak(im, code) ==
  IF im = "AR" THEN ClientErrorBreakAR(code) ELSE ClientErrorBreakBR(code)

(* The status string each except branch assigns.                           *)
FailStatus(im, o) ==
  IF im = "AR"
    THEN CASE o = "timeout" -> "failed_timeout"
           [] o \in {"network_error", "midstream"} -> "failed_network_error"
           [] o = "exception" -> "failed_exception"
           [] OTHER -> "failed_" \o o
    ELSE CASE o = "timeout" -> "error_timeout"
           [] o \in {"network_error", "midstream"} -> "error_network"
           [] o = "exception" -> "error_exception"
           [] OTHER -> "error_" \o o

SuccessStatuses == {"downloaded", "skipped_exists"}

(* _build_local_path: deterministic in (item_id, file_type, remote_url).   *)
TargetPath(item, type, url) == IF url = "f1" THEN "p1" ELSE "p2"

(* DatabaseManager.check_file_status (AR): status and path of the row for  *)
(* (item_id, remote_url), or None.                                         *)
check_file_status(fs, item, url) ==
  LET row == SelectFileByUrl(fs, item, url)
  IN IF row = 0 THEN [status |-> NoneV, path |-> NoneV]
                ELSE [status |-> fs[row].status, path |-> fs[row].path]

(* get_file_status of the BR store, called by ResourceDownloaderBR but not *)
(* defined in DatabaseManagerBR: the (status, local_path) lookup.          *)
get_file_status(fs, item, url) ==
  LET row == SelectFileByUrl(fs, item, url)
  IN IF row = 0 THEN [status |-> NoneV, path |-> NoneV]
                ELSE [status |-> fs[row].status, path |-> fs[row].path]

(* log_file_result of the BR store, called by ResourceDownloaderBR but not *)
(* defined in DatabaseManagerBR: the idempotent upsert on (item, url);     *)
(* success_at is stamped exactly for a terminal success.                   *)
log_file_result(fs, a) ==
  LET row == SelectFileByUrl(fs, a.item, a.url)
      ts == a.status \in SuccessStatuses
  IN IF row # 0
       THEN FileResult([fs EXCEPT ![row].path = a.path, ![row].status = a.status,
                                  ![row].ts = ts], row, FALSE, FALSE)
       ELSE FileResult(Append(fs, FileRow(a, ts)), Len(fs) + 1, TRUE, FALSE)

(* The local variables of one download_resource call.                      *)
(* calls counts the requests issued, timeouts those that timed out,       *)
(* outcome is how the latest request ended.                                *)
DlState(pc, mr, item, type, url, target, attempts, final, delays, ret, writes) ==
  [pc |-> pc, max_retries |-> mr, item |-> item, type |-> type, url |-> url,
   target |-> target, attempts |-> attempts, final |-> final, delays |-> delays,
   calls |-> 0, timeouts |-> 0, outcome |-> NoneV, ret |-> ret, writes |-> writes,
   pre |-> [status |-> NoneV, onDisk |-> FALSE, pathOk |-> FALSE]]

FileArg(d, path, status) ==
  [item |-> d.item, type |-> d.type, url |-> d.url, path |-> path, status |-> status]

download_start_ar_no_skip(fs, dsk, d, pathOk, verifyOk) ==
  LET returned(status) == [d EXCEPT !.pc = "done", !.final = status, !.ret = status]
  IN IF d.url = NoneV THEN [dl |-> returned("no_remote_url"), files |-> fs]
     ELSE IF d.item = 0 THEN [dl |-> returned("failed_error_item_id_none"), files |-> fs]
     ELSE [dl |-> [d EXCEPT !.pc = "loop"], files |-> fs]

(* download_resource up to the retry loop (AR): argument checks, the       *)
(* check_file_status short cut, the local path, the file already on disk.  *)
(* Gives the new call state and files table.                               *)
download_start_ar(fs, dsk, d, pathOk, verifyOk) ==
  LET st == check_file_status(fs, d.item, d.url).status
      returned(status) == [d EXCEPT !.pc = "done", !.final = status, !.ret = status]
  IN IF d.url = NoneV THEN [dl |-> returned("no_remote_url"), files |-> fs]
     ELSE IF d.item = 0 THEN [dl |-> returned("failed_error_item_id_none"), files |-> fs]
     ELSE IF st \in SuccessStatuses THEN [dl |-> returned(st), files |-> fs]
     ELSE IF ~pathOk
       THEN [dl |-> [returned("failed_path_error") EXCEPT !.writes = 1],
             files |-> log_file(fs, FileArg(d, NoneV, "failed_path_error")).files]
     ELSE IF dsk[d.target] # "absent" /\ verifyOk
       THEN [dl |-> [d EXCEPT !.pc = "log", !.final = "skipped_exists"], files |-> fs]
     ELSE [dl |-> [d EXCEPT !.pc = "loop",
                            !.final = IF dsk[d.target] # "absent" THEN "pending_redownload"
                                                                   ELSE "pending"],
           files |-> fs]

(* download_resource up to the retry loop (BR): argument checks, the local *)
(* path, then the get_file_status short cut, taken only when the recorded  *)
(* file is still on disk.                                                  *)
download_start_br(fs, dsk, d, pathOk) ==
  LET ex == get_file_status(fs, d.item, d.url)
      returned(status) == [d EXCEPT !.pc = "done", !.final = status, !.ret = status]
  IN IF d.url = NoneV THEN [dl |-> returned("failed_no_remote_url"), files |-> fs]
     ELSE IF d.item = 0 THEN [dl |-> returned("failed_item_id_none"), files |-> fs]
     ELSE IF ~pathOk
       THEN [dl |-> [returned("error_path_creation") EXCEPT !.writes = 1],
             files |-> log_file_result(fs, FileArg(d, NoneV, "error_path_creation")).files]
     ELSE IF ex.status \in SuccessStatuses /\ ex.path # NoneV /\ dsk[ex.path] # "absent"
       THEN [dl |-> returned(ex.status), files |-> fs]
     ELSE [dl |-> [d EXCEPT !.pc = "loop"], files |-> fs]

(* One iteration of "while attempts <= max_retries": the backoff sleep of  *)
(* a retry, the request, and the branch its outcome o selects.             *)
retry_guard_short(d) == d.attempts < d.max_retries

retry_guard(d) == d.attempts <= d.max_retries

attempt_break_never(im, o) == o \in {"ok", "exception"}

attempt_break(im, o) ==
  \/ o \in {"ok", "exception"}
  \/ HttpCode(o) # 0 /\ ClientErrorBreak(im, HttpCode(o))

download_attempt(im, d, o) ==
  LET slept == IF d.attempts > 0 THEN Append(d.delays, RetryDelay(d.attempts)) ELSE d.delays
      brk == attempt_break(im, o)
      next == [d EXCEPT !.delays = slept,
                        !.calls = d.calls + 1,
                        !.timeouts = IF o = "timeout" THEN d.timeouts + 1 ELSE d.timeouts,
                        !.outcome = o,
                        !.final = IF o = "ok" THEN "downloaded" ELSE FailStatus(im, o),
                        !.attempts = IF brk THEN d.attempts ELSE d.attempts + 1]
  IN [next EXCEPT !.pc = IF brk \/ ~retry_guard(next) THEN "log" ELSE "loop"]

(* The file at the target path once the attempt has raised or finished:    *)
(* open(..., 'wb') and the chunk loop run only after raise_for_status, so  *)
(* a failure of the request leaves the path as it was, a failure while     *)
(* streaming leaves the bytes written so far.                              *)
stream_to_file(dsk, path, o) ==
  CASE o = "ok" -> [dsk EXCEPT ![path] = "full"]
    [] o \in {"midstream", "exception"} -> [dsk EXCEPT ![path] = "partial"]
    [] OTHER -> dsk

cleanup_partial_file_skipped(dsk, path) == dsk

(* _cleanup_partial_file: os.remove of the path if it exists; the removal  *)
(* of a file the call has just written is taken to succeed.                *)
cleanup_partial_file(dsk, path) == [dsk EXCEPT ![path] = "absent"]

(* The disk after one attempt: every except branch calls                   *)
(* _cleanup_partial_file(local_path_target), the success path does not.    *)
disk_after_attempt(dsk, d, o) ==
  IF o = "ok" THEN stream_to_file(dsk, d.target, o)
  ELSE cleanup_partial_file(stream_to_file(dsk, d.target, o), d.target)

download_finish_silent(im, fs, d) ==
  IF d.final \notin SuccessStatuses THEN fs
  ELSE IF im = "AR" THEN log_file(fs, FileArg(d, d.target, d.final)).files
  ELSE log_file_result(fs, FileArg(d, d.target, d.final)).files

(* "4. Registrar resultado final en BD" and the return.                    *)
download_finish(im, fs, d) ==
  IF im = "AR"
    THEN log_file(fs, FileArg(d, IF d.final \in SuccessStatuses THEN d.target ELSE NoneV,
                              d.final)).files
    ELSE log_file_result(fs, FileArg(d, d.target, d.final)).files

(* What the store and the disk held for (item, url) when the call began.   *)
StoredBefore(fs, dsk, item, url, pathOk) ==
  LET ex == check_file_status(fs, item, url)
  IN [status |-> ex.status,
      onDisk |-> ex.path # NoneV /\ dsk[ex.path] # "absent",
      pathOk |-> pathOk]

InitDownload ==
  /\ impl \in Impl
  /\ items = << >>
  /\ files = << >>
  /\ last = NoLast
  /\ firstId = [k \in Keys |-> 0]
  /\ firstFile = NoFirstFile
  /\ procs = IdleProcs
  /\ dl \in {IdleDl(mr) : mr \in 1..MaxRetriesBound}
  /\ disk = NoDisk
  /\ hv = IdleHv
  /\ batch = IdleBatch
  /\ kw = IdleKw

(* A call download_resource(item_id, file_type, remote_url) runs up to its *)
(* first request.                                                          *)
DlCall(item, type, url, pathOk, verifyOk) ==
  /\ dl.pc \in {"idle", "done"}
  /\ LET d0 == DlState("start", dl.max_retries, item, type, url,
                       TargetPath(item, type, url), 0, "pending", << >>, NoneV, 0)
         d == [d0 EXCEPT !.pre = StoredBefore(files, disk, item, url, pathOk)]
         r == IF impl = "AR" THEN download_start_ar(files, disk, d, pathOk, verifyOk)
                             ELSE download_start_br(files, disk, d, pathOk)
     IN /\ impl = "BR" => verifyOk
        /\ dl' = r.dl
        /\ files' = r.files
  /\ UNCHANGED <<impl, items, last, firstId, firstFile, procs, disk, hv, batch, kw>>

DlAttempt(o) ==
  /\ dl.pc = "loop"
  /\ dl' = download_attempt(impl, dl, o)
  /\ disk' = disk_after_attempt(disk, dl, o)
  /\ UNCHANGED <<impl, items, files, last, firstId, firstFile, procs, hv, batch, kw>>

DlFinish ==
  /\ dl.pc = "log"
  /\ files' = download_finish(impl, files, dl)
  /\ dl' = [dl EXCEPT !.pc = "done", !.ret = dl.final, !.writes = dl.writes + 1]
  /\ UNCHANGED <<impl, items, last, firstId, firstFile, procs, disk, hv, batch, kw>>

(* A downloaded file disappears from the output directory between runs.    *)
FileLost(p) ==
  /\ dl.pc \in {"idle", "done"}
  /\ disk[p] # "absent"
  /\ disk' = [disk EXCEPT ![p] = "absent"]
  /\ UNCHANGED <<impl, items, files, last, firstId, firstFile, procs, dl, hv, batch, kw>>

(* A file already lies at a path of the output directory that the store    *)
(* does not list as downloaded (output kept from an earlier database).     *)
FilePlaced(p) ==
  /\ dl.pc \in {"idle", "done"}
  /\ disk[p] = "absent"
  /\ disk' = [disk EXCEPT ![p] = "full"]
  /\ UNCHANGED <<impl, items, files, last, firstId, firstFile, procs, dl, hv, batch, kw>>

NextDownload ==
  \/ \E item \in FileItems \cup {0}, type \in {"pdf"}, url \in FileURLs \cup {NoneV},
        pathOk \in BOOLEAN, verifyOk \in BOOLEAN : DlCall(item, type, url, pathOk, verifyOk)
  \/ \E o \in Outcomes : DlAttempt(o)
  \/ DlFinish
  \/ \E p \in Paths : FileLost(p)

SpecDownload == InitDownload /\ [][NextDownload]_vars

(* The downloader run over an output directory whose content the store    *)
(* need not know: calls for one URL, files appearing and disappearing.     *)
NextDownloadDisk ==
  \/ \E item \in FileItems \cup {0}, url \in {"f1", NoneV},
        pathOk \in BOOLEAN, verifyOk \in BOOLEAN : DlCall(item, "pdf", url, pathOk, verifyOk)
  \/ \E o \in Outcomes : DlAttempt(o)
  \/ DlFinish
  \/ \E p \in Paths : FileLost(p)
  \/ \E p \in Paths : FilePlaced(p)

SpecDownloadDisk == InitDownload /\ [][NextDownloadDisk]_vars

StoredStatus(fs, d) == check_file_status(fs, d.item, d.url).status

C7_SkipExistingAlways ==
  (dl.pc # "idle" /\ dl.pre.status \in SuccessStatuses) =>
     /\ dl.calls = 0
     /\ dl.pc = "done" /\ dl.ret = dl.pre.status

\* C7 amended: the same, provided that in the BR downloader the local path
\* could be built and the file recorded for the key is still on disk; the
\* call then also writes nothing to the Store. Otherwise the BR downloader
\* returns 'error_path_creation' without a request (path not built), or
\* goes on to request the resource again (recorded file gone from disk).
C7_SkipExisting ==
  (dl.pc # "idle" /\ dl.pre.status \in SuccessStatuses) =>
     /\ (impl = "BR" => (dl.pre.pathOk /\ dl.pre.onDisk)) =>
           /\ dl.calls = 0
           /\ dl.writes = 0
           /\ dl.pc = "done" /\ dl.ret = dl.pre.status
     /\ (impl = "BR" /\ ~dl.pre.pathOk) =>
           /\ dl.calls = 0
           /\ dl.pc = "done" /\ dl.ret = "error_path_creation"
     /\ (impl = "BR" /\ dl.pre.pathOk /\ ~dl.pre.onDisk) =>
           /\ dl.pc # "start"
           /\ dl.pc = "done" => dl.calls >= 1

(* A second call for a URL that an earlier call downloaded.                *)
C7_Witness ==
  /\ dl.pc = "done"
  /\ dl.pre.status = "downloaded"
  /\ dl.pre.onDisk
  /\ dl.calls = 0
  /\ dl.ret = "downloaded"

(* 4xx responses other than 429 among the modelled outcomes.               *)
ClientErrorOutcomes == {"http_404", "http_408"}

\* C8 as stated: a 4xx response other than 429 (404, 408) ends the call at
\* that attempt with the classified result for its code; it is never
\* followed by another attempt, and when it answers the first request the
\* call made exactly one request.
C8_ClientErrorTerminalAll ==
  (dl.pc # "idle" /\ dl.outcome \in ClientErrorOutcomes) =>
     /\ dl.pc \in {"log", "done"}
     /\ dl.final = FailStatus(impl, dl.outcome)
     /\ dl.attempts = 0 => dl.calls = 1

\* C8 amended: the same for every 4xx response other than 429 and, in the
\* BR downloader, other than 408 (which BR retries).
C8_ClientErrorTerminal ==
  (/\ dl.pc # "idle"
   /\ dl.outcome \in ClientErrorOutcomes
   /\ ~(impl = "BR" /\ dl.outcome = "http_408")) =>
     /\ dl.pc \in {"log", "done"}
     /\ dl.final = FailStatus(impl, dl.outcome)
     /\ dl.attempts = 0 => dl.calls = 1
     /\ dl.pc = "done" => dl.ret = dl.final

(* A 404 on the first request of a call that had retries left.             *)
C8_Witness ==
  /\ dl.pc = "done"
  /\ dl.outcome = "http_404"
  /\ dl.calls = 1
  /\ dl.max_retries >= 1
  /\ dl.ret = FailStatus(impl, "http_404")

RetryableOutcomes == {"timeout", "network_error", "midstream", "http_500", "http_429"}

\* C9 as stated: one download call makes at most max_retries requests.
C9_AtMostMaxRetries ==
  dl.pc # "idle" => dl.calls <= dl.max_retries

\* C9 amended: one download call makes at most max_retries + 1 requests (the
\* first attempt plus max_retries retries), and after a retryable failure it
\* stops only when those max_retries + 1 requests are used up.
C9_AtMostMaxRetriesPlusOne ==
  dl.pc # "idle" =>
     /\ dl.calls <= dl.max_retries + 1
     /\ (dl.pc \in {"log", "done"} /\ dl.outcome \in RetryableOutcomes)
           => dl.calls = dl.max_retries + 1

(* A call that used up all its attempts on retryable failures.             *)
C9_Witness ==
  /\ dl.pc = "done"
  /\ dl.max_retries >= 2
  /\ dl.outcome \in RetryableOutcomes
  /\ dl.calls = dl.max_retries + 1

NonDecreasing(sq) == \A i \in 1..(Len(sq) - 1) : sq[i] <= sq[i + 1]

\* C10: a call whose first k requests time out and whose request k+1
\* succeeds, with k+1 <= max_retries, returns 'downloaded', stores a success
\* result, and slept k delays that form a non-decreasing sequence.
C10_TimeoutsThenSuccess ==
  (/\ dl.pc = "done"
   /\ dl.outcome = "ok"
   /\ dl.timeouts = dl.calls - 1
   /\ dl.calls <= dl.max_retries) =>
     /\ dl.ret = "downloaded"
     /\ StoredStatus(files, dl) = "downloaded"
     /\ Len(dl.delays) = dl.timeouts
     /\ NonDecreasing(dl.delays)

(* Three timeouts, then a success on the fourth request.                   *)
C10_Witness ==
  /\ dl.pc = "done"
  /\ dl.outcome = "ok"
  /\ dl.timeouts = 3
  /\ dl.calls = 4
  /\ dl.calls <= dl.max_retries
  /\ dl.ret = "downloaded"

MaxRequests == 4

(* AR: max_attempts = 3 requests per page; self.delay from config 'delay'. *)
max_attempts == 3
delay == 1

Tokens == {"T1", "T2"}

(* Records an OAI server can return: the header identifier, the item page  *)
(* URL among the dc:identifier values (BR), whether a dc:identifier ends   *)
(* in .pdf (BR), and whether the header has status="deleted" (such a       *)
(* record has no metadata section).                                        *)
h1 == [oai |-> "h1", url |-> "u1", pdf |-> TRUE, deleted |-> FALSE]
h2 == [oai |-> "h2", url |-> NoneV, pdf |-> FALSE, deleted |-> FALSE]
h3 == [oai |-> "h3", url |-> "u3", pdf |-> FALSE, deleted |-> FALSE]
hd == [oai |-> "hd", url |-> NoneV, pdf |-> FALSE, deleted |-> TRUE]

PageShapes == { << >>, <<h1, h2>>, <<h3>>, <<hd>>, <<h1, hd>> }

FailureKinds == {"timeout", "connection_error", "http_500", "http_404", "bad_xml"}
ErrorCodes == {"noRecordsMatch", "badArgument"}

(* What the server can answer to one GET.                                  *)
Responses ==
  {[kind |-> "page", code |-> NoneV, recs |-> r, token |-> t] :
      r \in PageShapes, t \in Tokens \cup {NoToken}}
  \cup {[kind |-> "oai_error", code |-> c, recs |-> << >>, token |-> NoToken] :
      c \in ErrorCodes}
  \cup {[kind |-> k, code |-> NoneV, recs |-> << >>, token |-> NoToken] :
      k \in FailureKinds}

(* The configured sources: AR has one endpoint and no set; BR iterates     *)
(* over oai_repositories, each with an optional set_spec.                  *)
Repositories(im) ==
  IF im = "AR" THEN << [name |-> "oai", set_spec |-> FALSE] >>
  ELSE << [name |-> "alice", set_spec |-> TRUE],
          [name |-> "infoteca-e", set_spec |-> FALSE] >>

(* The query parameters of the next request.                               *)
oai_params_resend(im, h, repo) ==
  [verb |-> IF im = "AR" THEN "ListIdentifiers" ELSE "ListRecords",
   metadataPrefix |-> TRUE, set |-> im = "BR" /\ repo.set_spec,
   resumptionToken |-> h.token, page |-> h.pages]

oai_params(im, h, repo) ==
  IF h.token # NoToken
    THEN [verb |-> IF im = "AR" THEN "ListIdentifiers" ELSE "ListRecords",
          metadataPrefix |-> FALSE, set |-> FALSE,
          resumptionToken |-> h.token, page |-> h.pages]
    ELSE [verb |-> IF im = "AR" THEN "ListIdentifiers" ELSE "ListRecords",
          metadataPrefix |-> TRUE, set |-> im = "BR" /\ repo.set_spec,
          resumptionToken |-> NoToken, page |-> h.pages]

(* HTMLMetadataExtractor._get_item_page_url: base_url/handle/<handle>.     *)
get_item_page_url(oai) == "handle_" \o oai

NotDeleted(recs) == SelectSeq(recs, LAMBDA r : ~r.deleted)
Deleted(recs) == {recs[i].oai : i \in {j \in DOMAIN recs : recs[j].deleted}}

(* The harvest of the current repository ends: how is "done" when the stop *)
(* is logged as the end of the list (info/warning), "aborted" when the     *)
(* harvester logs it as an error.                                          *)
HvEnd(h, how) == [h EXCEPT !.pc = "repo_done", !.end = how]

(* A page was parsed: the retry counter of the next request starts at 0.   *)
PageParsed(h) == [h EXCEPT !.pages = @ + 1, !.request_attempts = 0]

Identifiers_first(recs) == IF recs = << >> THEN << >> ELSE <<recs[1].oai>>

Identifiers(recs) == [i \in DOMAIN recs |-> recs[i].oai]

(* except requests.exceptions.Timeout (AR): count, sleep, give up at       *)
(* max_attempts.                                                           *)
oai_timeout_no_retry(h) == HvEnd(h, "aborted")

oai_timeout(h) ==
  LET n == h.request_attempts + 1
      slept == [h EXCEPT !.request_attempts = n,
                         !.delays = Append(@, delay * Pow2(n))]
  IN IF n >= max_attempts THEN HvEnd(slept, "aborted") ELSE slept

(* The token found after a page with headers (AR): the anti-loop check.    *)
next_token_no_check(h, new_token) ==
  IF new_token # NoToken THEN [h EXCEPT !.token = new_token] ELSE HvEnd(h, "done")

next_token(h, new_token) ==
  IF new_token # NoToken
    THEN IF new_token = h.token THEN HvEnd(h, "aborted")
                                ELSE [h EXCEPT !.token = new_token]
    ELSE HvEnd(h, "done")

(* A variant that never finds the record limit reached.                    *)
limit_reached_never(max_records, n) == FALSE

(* "if max_records and records_fetched >= max_records" (AR),               *)
(* "if total_records_fetched_for_repo >= self.max_records_per_repo" (BR);  *)
(* 0 stands for no limit (AR None, BR float('inf')).                       *)
limit_reached(max_records, n) == max_records > 0 /\ n >= max_records

(* The identifiers list after the header loop of one page (AR): the limit  *)
(* is tested after every header, and reaching it returns from the method.  *)
RECURSIVE scan_headers(_, _, _)
scan_headers(recs, got, max_records) ==
  IF recs = << >> THEN got
  ELSE LET g == got \o Identifiers(NotDeleted(<<Head(recs)>>))
       IN IF limit_reached(max_records, Len(g)) THEN g
          ELSE scan_headers(Tail(recs), g, max_records)

(* OAIHarvester.get_identifiers (AR): one pass of the while True loop on   *)
(* the answer resp to the request just sent.                               *)
get_identifiers(h, resp) ==
  CASE resp.kind = "timeout" -> oai_timeout(h)
    [] resp.kind \in {"connection_error", "http_500", "http_404"} -> HvEnd(h, "aborted")
    [] resp.kind = "bad_xml" -> HvEnd(h, "aborted")
    [] resp.kind = "oai_error" -> HvEnd(h, "aborted")
    [] OTHER ->
       IF resp.recs = << >>
         THEN IF resp.token = NoToken
                THEN HvEnd(PageParsed(h), "done")
                ELSE [PageParsed(h) EXCEPT !.token = resp.token]
         ELSE IF h.max_records = 0
           THEN next_token([PageParsed(h) EXCEPT
                              !.identifiers = @ \o Identifiers(NotDeleted(resp.recs))],
                           resp.token)
         ELSE LET ids == scan_headers(resp.recs, h.identifiers, h.max_records)
                  got == [PageParsed(h) EXCEPT !.identifiers = ids]
              IN IF limit_reached(h.max_records, Len(ids))
                   THEN HvEnd(got, "done")
                   ELSE next_token(got, resp.token)

(* Scraper.run, OAI discovery phase (AR): every harvested identifier is    *)
(* turned into its handle URL and upserted as 'pending_download'.          *)
RECURSIVE register_identifiers(_, _)
register_identifiers(its, ids) ==
  IF ids = << >> THEN [items |-> its, created |-> {}, upserts |-> 0]
  ELSE LET a == [oai |-> Head(ids), url |-> get_item_page_url(Head(ids)),
                 mode |-> "oai", status |-> "pending_download"]
           r == get_or_create_item_by_url(its, a)
           rest == register_identifiers(r.items, Tail(ids))
       IN [items |-> rest.items,
           created |-> (IF r.new THEN {Head(ids)} ELSE {}) \cup rest.created,
           upserts |-> rest.upserts + 1]

(* OAIHarvesterBR._parse_record: the header identifier is all it reads of  *)
(* the header; a record without a metadata section yields the identifier   *)
(* alone.                                                                  *)
parse_record(rec) ==
  IF rec.deleted THEN [oai |-> rec.oai, url |-> NoneV, pdf |-> FALSE]
                 ELSE [oai |-> rec.oai, url |-> rec.url, pdf |-> rec.pdf]

(* OAIHarvesterBR.harvest_repository: the for loop over records_in_batch.  *)
RECURSIVE harvest_records(_, _, _)
harvest_records(its, recs, repo) ==
  IF recs = << >> THEN [items |-> its, created |-> {}, upserts |-> 0]
  ELSE LET r == harvest_record(its, parse_record(Head(recs)), repo)
           rest == harvest_records(r.items, Tail(recs), repo)
       IN [items |-> rest.items,
           created |-> (IF r.new THEN {Head(recs).oai} ELSE {}) \cup rest.created,
           upserts |-> rest.upserts + (IF Head(recs).deleted THEN 0 ELSE 1)]

(* OAIHarvesterBR._make_oai_request: None on a failed request, unparsable  *)
(* XML or an OAI error other than noRecordsMatch.                          *)
make_oai_request(resp) ==
  IF resp.kind \in FailureKinds THEN NoneV
  ELSE IF resp.kind = "oai_error" /\ resp.code # "noRecordsMatch" THEN NoneV
  ELSE "xml_tree"

(* OAIHarvesterBR.harvest_repository: one pass of the while True loop.     *)
harvest_repository(its, h, resp, repo) ==
  IF make_oai_request(resp) = NoneV
    THEN [hv |-> HvEnd(h, "aborted"), items |-> its]
  ELSE IF resp.recs = << >> /\ h.first_request
    THEN [hv |-> HvEnd(PageParsed(h), "done"), items |-> its]
  ELSE LET room == IF h.max_records = 0 THEN Len(resp.recs)
                   ELSE Min({Len(resp.recs), h.max_records - h.fetched})
           r == harvest_records(its, SubSeq(resp.recs, 1, room), repo.name)
           done == [PageParsed(h) EXCEPT !.upserts = @ + r.upserts,
                                         !.created = @ \cup r.created,
                                         !.fetched = @ + room]
       IN [hv |-> IF limit_reached(h.max_records, done.fetched)
                    THEN HvEnd(done, "done")
                  ELSE IF resp.token # NoToken
                    THEN [done EXCEPT !.token = resp.token, !.first_request = FALSE]
                    ELSE HvEnd(done, "done"),
           items |-> r.items]

InitHarvest ==
  /\ impl \in Impl
  /\ items = << >>
  /\ files = << >>
  /\ last = NoLast
  /\ firstId = [k \in Keys |-> 0]
  /\ firstFile = NoFirstFile
  /\ procs = IdleProcs
  /\ dl = IdleDl(download_max_retries)
  /\ disk = NoDisk
  /\ hv = IdleHv
  /\ batch = IdleBatch
  /\ kw = IdleKw

CurrentRepo == Repositories(impl)[hv.repo]

(* The call that enters a repository's loop.  ScraperBR._run_oai_harvest   *)
(* calls harvest_repository(repo_key, max_records_to_fetch=...), which the *)
(* signature harvest_repository(self, repo_config) rejects with a          *)
(* TypeError before the loop is entered; run_harvest and Scraper.run pass  *)
(* what the callee expects.                                                *)
start_repository(h, repo) ==
  IF h.caller = "_run_oai_harvest"
    THEN [IdleHv EXCEPT !.caller = h.caller, !.pc = "repo_done", !.repo = repo,
                        !.end = "raised", !.ends = h.ends,
                        !.max_records = h.max_records]
    ELSE [IdleHv EXCEPT !.caller = h.caller, !.pc = "request", !.repo = repo,
                        !.ends = h.ends, !.max_records = h.max_records]

Callers(im) == IF im = "AR" THEN {"run"} ELSE {"run_harvest", "_run_oai_harvest"}

(* Scraper.run (AR), OAIHarvesterBR.run_harvest or                         *)
(* ScraperBR._run_oai_harvest (BR) starts on the first repository.         *)
HvStart ==
  /\ hv.pc = "idle"
  /\ kw.pc = "idle"
  /\ \E c \in Callers(impl) :
        hv' = start_repository([IdleHv EXCEPT !.caller = c], 1)
  /\ UNCHANGED <<impl, items, files, last, firstId, firstFile, procs, dl, disk, batch, kw>>

(* One GET and everything the loop does with its answer.  served counts    *)
(* the non-deleted records of the pages received, repeat tells that the    *)
(* answer carried the very token that was sent.                            *)
HvRequest(resp) ==
  /\ hv.pc = "request"
  /\ hv.reqs < MaxRequests
  /\ LET h == [hv EXCEPT
                 !.reqs = @ + 1,
                 !.sent = oai_params(impl, hv, CurrentRepo),
                 !.resp = resp.kind,
                 !.resp_code = resp.code,
                 !.resp_token = resp.token,
                 !.records_seen = @ \cup {NotDeleted(resp.recs)[i].oai :
                                            i \in DOMAIN NotDeleted(resp.recs)},
                 !.repeat = resp.kind = "page" /\ resp.token # NoToken
                              /\ resp.token = hv.token,
                 !.served = @ + Len(NotDeleted(resp.recs)),
                 !.deleted_seen = @ \cup Deleted(resp.recs)]
     IN IF impl = "AR"
          THEN /\ hv' = get_identifiers(h, resp)
               /\ items' = items
          ELSE LET r == harvest_repository(items, h, resp, CurrentRepo)
               IN /\ hv' = r.hv
                  /\ items' = r.items
  /\ UNCHANGED <<impl, files, last, firstId, firstFile, procs, dl, disk, batch, kw>>

(* A variant of the loop over repositories that gives up at the first     *)
(* repository that did not end normally.                                   *)
next_repository_stop_on_failure(im, h) ==
  LET ended == [h EXCEPT !.ends = Append(@, h.end)]
  IN IF im = "AR" THEN [ended EXCEPT !.pc = "register"]
     ELSE IF h.repo < Len(Repositories(im)) /\ h.end = "done"
       THEN start_repository(ended, h.repo + 1)
       ELSE [ended EXCEPT !.pc = "finished"]

(* run_harvest / _run_oai_harvest (BR): the for loop moves on to the next  *)
(* repository whatever the previous one returned or raised; AR returns     *)
(* the identifiers to Scraper.run.                                         *)
next_repository(im, h) ==
  LET ended == [h EXCEPT !.ends = Append(@, h.end)]
  IN IF im = "AR" THEN [ended EXCEPT !.pc = "register"]
     ELSE IF h.repo < Len(Repositories(im))
       THEN start_repository(ended, h.repo + 1)
       ELSE [ended EXCEPT !.pc = "finished"]

HvNextRepo ==
  /\ hv.pc = "repo_done"
  /\ hv' = next_repository(impl, hv)
  /\ UNCHANGED <<impl, items, files, last, firstId, firstFile, procs, dl, disk, batch, kw>>

(* Scraper.run (AR) registers the identifiers get_identifiers returned.    *)
AR_RegisterIdentifiers ==
  /\ impl = "AR"
  /\ hv.pc = "register"
  /\ LET r == register_identifiers(items, hv.identifiers)
     IN /\ items' = r.items
        /\ hv' = [hv EXCEPT !.pc = "finished", !.upserts = r.upserts,
                            !.created = r.created]
  /\ UNCHANGED <<impl, files, last, firstId, firstFile, procs, dl, disk, batch, kw>>

NextHarvest ==
  \/ HvStart
  \/ \E resp \in Responses : HvRequest(resp)
  \/ HvNextRepo
  \/ AR_RegisterIdentifiers

SpecHarvest == InitHarvest /\ [][NextHarvest]_vars

\* C12: once a response has carried a non-empty resumptionToken equal to
\* the token that was just sent, the harvest of that repository has stopped:
\* no further request is pending, whatever records the page held.
C12_RepeatedTokenStops ==
  hv.repeat => hv.pc # "request"

HRecordSet == {h1, h2, h3, hd}

\* C13: in every harvest of a repository, a request sent before any page
\* was received carries verb, metadataPrefix and the set when one is
\* configured, and no resumptionToken; every request sent after a page
\* carries the verb and the resumptionToken only.
C13_RequestParameters ==
  hv.reqs >= 1 =>
     IF hv.sent.page = 0
       THEN /\ hv.sent.metadataPrefix
            /\ hv.sent.set = (impl = "BR" /\ CurrentRepo.set_spec)
            /\ hv.sent.resumptionToken = NoToken
       ELSE /\ ~hv.sent.metadataPrefix
            /\ ~hv.sent.set
            /\ hv.sent.resumptionToken # NoToken

(* A resumed request in the harvest of a repository with a configured set. *)
C13_Witness ==
  /\ hv.reqs >= 2
  /\ hv.sent.page >= 1
  /\ impl = "BR" /\ CurrentRepo.set_spec
  /\ hv.sent.resumptionToken \in Tokens
  /\ ~hv.sent.metadataPrefix

\* C14: no Item row exists for the identifier of a record that the server
\* returned with header status="deleted".
C14_DeletedNotUpserted ==
  \A o \in hv.deleted_seen : SelectItemByOai(items, o) = 0

HarvestComplete ==
  IF impl = "AR" THEN hv.pc = "finished" ELSE hv.pc \in {"request", "repo_done", "finished"}

AwaitingDownload == "pending_pdf_download"
AwaitingLinkResolution == IF impl = "AR" THEN "pending_download" ELSE "pending_pdf_link"
DirectResourceUrl(rec) == impl = "BR" /\ rec.pdf

\* C16: an Item created by the harvest for a non-deleted record is
\* 'awaiting download' if the record carried a direct resource URL and
\* 'awaiting link resolution' otherwise.
C16_InitialStatus ==
  \A rec \in HRecordSet :
     (~rec.deleted /\ rec.oai \in hv.created) =>
        /\ SelectItemByOai(items, rec.oai) # 0
        /\ items[SelectItemByOai(items, rec.oai)].status =
              IF DirectResourceUrl(rec) THEN AwaitingDownload ELSE AwaitingLinkResolution

(* One page created an Item with and an Item without a direct PDF URL.     *)
C16_Witness ==
  /\ impl = "BR"
  /\ {"h1", "h2"} \subseteq hv.created
  /\ items[SelectItemByOai(items, "h1")].status = "pending_pdf_download"
  /\ items[SelectItemByOai(items, "h2")].status = "pending_pdf_link"

\* C17: after a response with an OAI error element the harvest of that
\* repository has stopped; it ended as done for noRecordsMatch and as
\* aborted for any other code.
C17_OaiErrorEndsHarvest ==
  hv.resp = "oai_error" =>
     /\ hv.pc # "request"
     /\ hv.end = IF hv.resp_code = "noRecordsMatch" THEN "done" ELSE "aborted"

\* C18: a request that timed out, failed to connect or got a 5xx ends the
\* harvest only when max_attempts tries of that request are used up, retry
\* number n being preceded by a sleep of delay * 2^n; a 4xx ends the
\* harvest at once.
C18_HarvestRetryPolicy ==
  /\ (hv.resp \in {"timeout", "connection_error", "http_500"} /\ hv.pc # "request")
        => hv.request_attempts >= max_attempts
  /\ hv.resp = "http_404" => hv.pc # "request"
  /\ \A i \in DOMAIN hv.delays : hv.delays[i] = delay * Pow2(i)

(* ---------------------------------------------------------------------- *)
(* Keyword search: KeywordSearcher.search_and_register (AR),               *)
(* ScraperBR._run_keyword_search / search_and_register_keyword (BR)        *)
(* ---------------------------------------------------------------------- *)
MaxSearchPages == 2

(* config 'keywords' (AR) / 'keyword_search_keywords' (BR): two entries.   *)
Keywords == <<"semilla", "maiz">>

SearchLinks == {<< >>, <<"u1">>, <<"u1", "u2">>}

(* What one search request gives: a result page with its item links and    *)
(* whether it has a next-page link, no content at all (the request or the  *)
(* browser failed), or content the parser chokes on.                       *)
SearchResponses ==
  [kind : {"results"}, links : SearchLinks, next : BOOLEAN]
    \cup {[kind |-> k, links |-> << >>, next |-> FALSE] :
            k \in {"request_failed", "parse_error"}}

(* The keyword's loop is left.                                             *)
KwEnd(k, how) == [k EXCEPT !.pc = "keyword_done", !.end = how]

(* The for loop over item_elements of search_and_register (AR).            *)
RECURSIVE register_links(_, _)
register_links(its, links) ==
  IF links = << >> THEN its
  ELSE register_links(
         get_or_create_item_by_url(its,
            [oai |-> NoneV, url |-> Head(links), mode |-> "keyword_search",
             status |-> "pending_download"]).items,
         Tail(links))

(* KeywordSearcher.search_and_register (AR): one pass of the while loop of *)
(* one keyword.  No content, or an exception while parsing, breaks out of  *)
(* the while loop only.                                                    *)
search_and_register(its, k, resp) ==
  IF resp.kind \in {"request_failed", "parse_error"}
    THEN [kw |-> KwEnd(k, "failed"), items |-> its]
  ELSE IF resp.links = << >>
    THEN [kw |-> KwEnd(k, "done"), items |-> its]
  ELSE [kw |-> IF resp.next /\ k.page_count + 1 < MaxSearchPages
                 THEN [k EXCEPT !.page_count = @ + 1]
                 ELSE KwEnd(k, "done"),
        items |-> register_links(its, resp.links)]

(* KeywordSearcherBR.search_and_register_keyword: one pass of its while    *)
(* loop.  _get_html_with_selenium gives None on failure and                *)
(* _parse_search_results gives ([], None) on a parse error; the first item *)
(* of a page is passed to get_or_create_item with discovery_mode= and      *)
(* search_keyword=, which its signature rejects with a TypeError that      *)
(* leaves the function before anything is written.                         *)
search_and_register_keyword(its, k, resp) ==
  IF resp.kind = "request_failed"
    THEN [kw |-> KwEnd(k, "failed"), items |-> its]
  ELSE IF resp.kind = "parse_error"
    THEN [kw |-> KwEnd(k, "failed"), items |-> its]
  ELSE IF resp.links # << >>
    THEN [kw |-> KwEnd(k, "raised"), items |-> its]
  ELSE [kw |-> IF resp.next /\ k.page_count + 1 < MaxSearchPages
                 THEN [k EXCEPT !.page_count = @ + 1]
                 ELSE KwEnd(k, "done"),
        items |-> its]

(* for keyword in keywords: the next keyword is searched whatever the      *)
(* previous one did (AR: break leaves the while loop; BR: the try/except   *)
(* of _run_keyword_search wraps one keyword).                              *)
next_keyword(k) ==
  LET ended == [k EXCEPT !.ends = Append(@, k.end)]
  IN IF k.keyword < Len(Keywords)
       THEN [IdleKw EXCEPT !.pc = "search", !.keyword = k.keyword + 1,
                           !.ends = ended.ends]
       ELSE [ended EXCEPT !.pc = "finished"]

(* Scraper.run (AR) searches in mode 'keyword_search', instead of          *)
(* harvesting; ScraperBR.run searches after the harvest, or alone when     *)
(* harvesting is switched off.                                             *)
KwStart ==
  /\ kw.pc = "idle"
  /\ IF impl = "AR" THEN hv.pc = "idle"
                    ELSE hv.pc = "idle" \/ (hv.pc = "finished" /\ hv.caller = "_run_oai_harvest")
  /\ kw' = [IdleKw EXCEPT !.pc = "search", !.keyword = 1]
  /\ UNCHANGED <<impl, items, files, last, firstId, firstFile, procs, dl, disk, hv, batch>>

(* One search request and everything the loop does with its answer.        *)
KwPage(resp) ==
  /\ kw.pc = "search"
  /\ LET k == [kw EXCEPT !.resp = resp.kind,
                          !.offered = @ \cup {resp.links[i] : i \in DOMAIN resp.links}]
         r == IF impl = "AR" THEN search_and_register(items, k, resp)
                             ELSE search_and_register_keyword(items, k, resp)
     IN /\ kw' = r.kw
        /\ items' = r.items
  /\ UNCHANGED <<impl, files, last, firstId, firstFile, procs, dl, disk, hv, batch>>

KwNext ==
  /\ kw.pc = "keyword_done"
  /\ kw' = next_keyword(kw)
  /\ UNCHANGED <<impl, items, files, last, firstId, firstFile, procs, dl, disk, hv, batch>>

(* The discovery phase of one run: harvest and keyword search as the       *)
(* orchestrators sequence them.                                            *)
NextSources ==
  \/ HvStart
  \/ \E resp \in Responses : HvRequest(resp)
  \/ HvNextRepo
  \/ AR_RegisterIdentifiers
  \/ KwStart
  \/ \E resp \in SearchResponses : KwPage(resp)
  \/ KwNext

SpecSources == InitHarvest /\ [][NextSources]_vars

SourceFailed(end) == end \in {"aborted", "raised", "failed"}

BatchSize == 3
MaxRuns == 2

(* What handling one item meets.  snapshot: fetch_html_snapshot gave       *)
(* content (BR).  oai_pdf: the item's metadata_json holds a pdf_direct_url *)
(* (BR).  page: what its item_page_url looks like (BR).  resolver: what    *)
(* the extraction does (AR fetch_and_extract, BR extract_metadata).        *)
(* download / thumbnail: what download_resource does for the PDF and for   *)
(* the thumbnail the metadata names, "none" when it names none.            *)
ItemOutcomes ==
  [snapshot : BOOLEAN, oai_pdf : BOOLEAN, page : {"html", "pdf_url", "invalid"},
   resolver : {"raises", "none", "found"},
   download : {"none", "downloaded", "failed", "raises"},
   thumbnail : {"none", "downloaded", "failed"}]

(* The outcomes a stage tells apart: what the stage never looks at is held *)
(* at one value.                                                           *)
StageOutcomes(stage) ==
  {o \in ItemOutcomes :
     /\ stage # "html_metadata" => o.snapshot
     /\ stage \in {"process", "html_metadata"} => (o.oai_pdf /\ o.page = "html")
     /\ stage = "pdf_download" => o.page = "html"
     /\ stage \in {"pdf_links", "pdf_download"} => o.resolver = "found"
     /\ stage \in {"html_metadata", "pdf_links"} => o.download = "none"
     /\ stage = "pdf_download" => o.download \in {"downloaded", "failed"}
     /\ stage # "process" => o.thumbnail = "none"}

(* The result of one loop body: the table and what happened to the item.   *)
Handled(its, id, resolver, status, raised, escaped) ==
  [items |-> its,
   last |-> [NoItemYet EXCEPT !.id = id, !.resolver = resolver, !.status = status,
                              !.raised = raised, !.escaped = escaped]]

(* The same, for an item whose resources went to the downloader.           *)
Downloaded(h, critical, noncritical) ==
  [h EXCEPT !.last.dl_invoked = TRUE, !.last.critical = critical,
            !.last.noncritical = noncritical]

(* DatabaseManager.get_items_to_process (AR): the ids whose status is one  *)
(* of statuses, in table order.                                            *)
get_items_to_process(its, statuses) ==
  SelectSeq([i \in DOMAIN its |-> i], LAMBDA i : its[i].status \in statuses)

(* DatabaseManagerBR.get_items_to_process: called by the orchestrator,     *)
(* not defined in the class; taken to answer as the AR method does.        *)
get_items_to_process_br(its, statuses) ==
  SelectSeq([i \in DOMAIN its |-> i], LAMBDA i : its[i].status \in statuses)

process_statuses ==
  {"pending_download", "pending_metadata", "error", "error_extraction", "error_download"}

(* The stages of one run, in the order the orchestrator runs them.         *)
Stages(im) ==
  IF im = "AR" THEN <<"process">>
               ELSE <<"html_metadata", "pdf_links", "pdf_download">>

(* The statuses each stage asks the store for.                             *)
StageStatuses(stage) ==
  CASE stage = "process" -> process_statuses
    [] stage = "html_metadata" -> {"pending_html_processing"}
    [] stage = "pdf_links" -> {"pending_download"}
    [] stage = "pdf_download" -> {"awaiting_pdf_download"}

(* The in-progress status each stage writes before handling an item.       *)
StageProcessing(stage) ==
  CASE stage = "process" -> "processing"
    [] stage = "html_metadata" -> "processing_html"
    [] stage = "pdf_links" -> "processing_pdf_link"
    [] stage = "pdf_download" -> "processing_pdf_download"

(* A variant in which a failed thumbnail counts like a failed PDF.         *)
is_critical_any(type) == TRUE

(* Scraper.run: is_critical = (resource['type'] == 'pdf').                 *)
is_critical(type) == type = "pdf"

(* Scraper.run (AR), body of the for loop over items_to_process_ids: the   *)
(* item is marked 'processing', then extraction and downloads run inside   *)
(* a try whose except branch writes 'error'.                               *)
process_item_ar(its, id, o) ==
  LET marked == update_item_status(its, id, "processing")
      err == update_item_status(marked, id, "error")
      all_downloads_ok ==
        /\ ~(o.download = "failed" /\ is_critical("pdf"))
        /\ ~(o.thumbnail = "failed" /\ is_critical("image_thumbnail"))
      final == IF all_downloads_ok THEN "processed" ELSE "error"
  IN IF o.resolver = "raises" THEN Handled(err, id, "raises", "error", TRUE, FALSE)
     ELSE IF o.resolver = "none" THEN Handled(err, id, "failed", "error", FALSE, FALSE)
     ELSE IF o.download = "none" /\ o.thumbnail = "none"
       THEN Handled(update_item_status(marked, id, "processed"), id, "no_resource",
                    "processed", FALSE, FALSE)
     ELSE IF o.download = "raises"
       THEN Downloaded(Handled(err, id, "found", "error", TRUE, FALSE), "raises", NoneV)
     ELSE Downloaded(Handled(update_item_status(marked, id, final), id, "found",
                             final, FALSE, FALSE),
                     o.download, o.thumbnail)

(* HTMLMetadataExtractorBR.extract_metadata: called by the orchestrator,   *)
(* not defined in the class; taken to give the metadata or to raise.       *)
extract_metadata(o) == IF o.resolver = "raises" THEN "raises" ELSE "metadata"

(* ScraperBR._process_items_for_html_metadata, body of the for loop.       *)
process_item_html(its, id, o) ==
  LET marked == update_item_status(its, id, "processing_html")
      failed == update_item_status(marked, id, "failed_html_processing")
  IN IF ~o.snapshot
       THEN Handled(failed, id, "failed", "failed_html_processing", FALSE, FALSE)
     ELSE IF extract_metadata(o) = "raises"
       THEN Handled(failed, id, "raises", "failed_html_processing", TRUE, FALSE)
     ELSE Handled(update_item_status(marked, id, "pending_download"), id, "found",
                  "pending_download", FALSE, FALSE)

(* HTMLMetadataExtractorBR.extract_pdf_link as _process_items_for_pdf_links *)
(* calls it: with item_id_for_log=..., a keyword the signature             *)
(* extract_pdf_link(self, item_page_url, html_doc=None) does not have.     *)
extract_pdf_link(o) == "raises"

(* ScraperBR._process_items_for_pdf_links, body of the for loop: the item  *)
(* is marked 'processing_pdf_link'; nothing in the loop catches what the   *)
(* resolver raises.  An item with neither a pdf_direct_url nor a page to   *)
(* look at has no resource at all.                                         *)
process_item_br(its, id, o) ==
  LET marked == update_item_status(its, id, "processing_pdf_link")
      await == update_item_status(marked, id, "awaiting_pdf_download")
      err == update_item_status(marked, id, "error_pdf_link_extraction")
  IN IF o.oai_pdf \/ o.page = "pdf_url"
       THEN Handled(await, id, "found", "awaiting_pdf_download", FALSE, FALSE)
     ELSE IF o.page = "invalid"
       THEN Handled(err, id, "no_resource", "error_pdf_link_extraction", FALSE, FALSE)
     ELSE IF extract_pdf_link(o) = "raises"
       THEN Handled(marked, id, "raises", "processing_pdf_link", TRUE, TRUE)
     ELSE IF extract_pdf_link(o) = "found"
       THEN Handled(await, id, "found", "awaiting_pdf_download", FALSE, FALSE)
       ELSE Handled(err, id, "failed", "error_pdf_link_extraction", FALSE, FALSE)

(* ScraperBR._download_pdf_files, body of the for loop.                    *)
process_item_download(its, id, o) ==
  LET marked == update_item_status(its, id, "processing_pdf_download")
  IN IF ~o.oai_pdf
       THEN Handled(update_item_status(marked, id, "error_missing_pdf_url"), id,
                    "found", "error_missing_pdf_url", FALSE, FALSE)
     ELSE IF o.download = "downloaded"
       THEN Downloaded(Handled(update_item_status(marked, id, "processed"), id,
                               "found", "processed", FALSE, FALSE),
                       "downloaded", NoneV)
       ELSE Downloaded(Handled(update_item_status(marked, id, "error_pdf_download"), id,
                               "found", "error_pdf_download", FALSE, FALSE),
                       "failed", NoneV)

process_item(stage, its, id, o) ==
  CASE stage = "process" -> process_item_ar(its, id, o)
    [] stage = "html_metadata" -> process_item_html(its, id, o)
    [] stage = "pdf_links" -> process_item_br(its, id, o)
    [] stage = "pdf_download" -> process_item_download(its, id, o)

(* The status a discovered item waits in before its first stage.           *)
Discovered(im) == IF im = "AR" THEN "pending_download" ELSE "pending_html_processing"

(* A batch of BatchSize discovered items waits in the table.               *)
InitBatch ==
  /\ impl \in Impl
  /\ items = [i \in 1..BatchSize |->
                ItemRow([oai |-> NoneV, url |-> ToString(i), mode |-> "oai",
                         status |-> Discovered(impl)])]
  /\ files = << >>
  /\ last = NoLast
  /\ firstId = [k \in Keys |-> 0]
  /\ firstFile = NoFirstFile
  /\ procs = IdleProcs
  /\ dl = IdleDl(download_max_retries)
  /\ disk = NoDisk
  /\ hv = IdleHv
  /\ batch = IdleBatch
  /\ kw = IdleKw

(* A stage reads its batch from the table.                                 *)
start_stage(im, b, its, n) ==
  LET stage == Stages(im)[n]
      q == IF im = "AR" THEN get_items_to_process(its, StageStatuses(stage))
                        ELSE get_items_to_process_br(its, StageStatuses(stage))
  IN [b EXCEPT !.pc = IF q = << >> THEN "stage_done" ELSE "loop",
               !.stage = n, !.queue = q, !.i = 1, !.raised = {}, !.handled = {}]

CurrentStage == Stages(impl)[batch.stage]

(* A run starts: the first, or one after a run that finished, was          *)
(* abandoned on an exception, or was killed.                               *)
BatchStart ==
  /\ batch.pc \in {"idle", "finished", "aborted", "killed"}
  /\ batch.run < MaxRuns
  /\ batch' = start_stage(impl, [batch EXCEPT !.run = @ + 1], items, 1)
  /\ UNCHANGED <<impl, items, files, last, firstId, firstFile, procs, dl, disk, hv, kw>>

(* One pass of the for loop.  An exception that leaves the loop is caught  *)
(* by ScraperBR.run, which logs it and ends the run.                       *)
BatchItem(o) ==
  /\ batch.pc = "loop"
  /\ o \in StageOutcomes(CurrentStage)
  /\ LET id == batch.queue[batch.i]
         r == process_item(CurrentStage, items, id, o)
     IN /\ items' = r.items
        /\ batch' = [batch EXCEPT
                       !.raised = IF r.last.raised THEN @ \cup {id} ELSE @,
                       !.handled = @ \cup {id},
                       !.last = [r.last EXCEPT !.stage = CurrentStage],
                       !.i = IF r.last.escaped THEN @ ELSE @ + 1,
                       !.pc = IF r.last.escaped THEN "aborted"
                              ELSE IF batch.i = Len(batch.queue) THEN "stage_done"
                              ELSE "loop"]
  /\ UNCHANGED <<impl, files, last, firstId, firstFile, procs, dl, disk, hv, kw>>

(* The process is killed while an item is being handled: the in-progress   *)
(* mark is the last thing written.                                         *)
BatchKill ==
  /\ batch.pc = "loop"
  /\ LET id == batch.queue[batch.i]
     IN /\ items' = update_item_status(items, id, StageProcessing(CurrentStage))
        /\ batch' = [batch EXCEPT
                       !.pc = "killed",
                       !.last = [NoItemYet EXCEPT !.id = id, !.stage = CurrentStage,
                                   !.status = StageProcessing(CurrentStage)]]
  /\ UNCHANGED <<impl, files, last, firstId, firstFile, procs, dl, disk, hv, kw>>

(* The run goes on to its next stage, or ends after the last one.          *)
BatchNextStage ==
  /\ batch.pc = "stage_done"
  /\ batch' = IF batch.stage < Len(Stages(impl))
                THEN start_stage(impl, batch, items, batch.stage + 1)
                ELSE [batch EXCEPT !.pc = "finished"]
  /\ UNCHANGED <<impl, items, files, last, firstId, firstFile, procs, dl, disk, hv, kw>>

NextBatch ==
  \/ BatchStart
  \/ \E o \in ItemOutcomes : BatchItem(o)
  \/ BatchKill
  \/ BatchNextStage

SpecBatch == InitBatch /\ [][NextBatch]_vars

BatchTerminal ==
  {"processed", "error", "pending_download", "awaiting_pdf_download",
   "failed_html_processing", "error_pdf_link_extraction", "error_missing_pdf_url",
   "error_pdf_download"}
BatchError ==
  {"error", "failed_html_processing", "error_pdf_link_extraction",
   "error_missing_pdf_url", "error_pdf_download"}

\* C20: when a batch is over, every item of the batch has left the status
\* the batch was selected by and the in-progress status, and every item on
\* which an exception was raised has an error status: the exception was
\* caught at the item's boundary and the later items were still processed.
C20_ItemIsolation ==
  batch.pc \in {"stage_done", "finished", "aborted"} =>
     \A k \in DOMAIN batch.queue :
        /\ items[batch.queue[k]].status \in BatchTerminal
        /\ items[batch.queue[k]].status \in StageStatuses(CurrentStage)
             => items[batch.queue[k]].status = "error"
        /\ batch.queue[k] \in batch.raised => items[batch.queue[k]].status \in BatchError

ExtractionError == {"error_extraction", "error_pdf_link_extraction", "failed_html_processing"}
DownloadError == {"error_download", "error_pdf_download"}

\* C21: an item whose resolver returned no result has been given the
\* extraction-specific error status, and the downloader was not invoked
\* for it.
C21_ResolverFailure ==
  batch.last.resolver = "failed" =>
     /\ batch.last.status \in ExtractionError
     /\ ~batch.last.dl_invoked

C24_KilledItemRetried ==
  batch.pc = "killed" =>
     items[batch.last.id].status \in StageStatuses(batch.last.stage)

\* C25: an item a batch left in an error status is selected again by the
\* next batch of the same stage, and a processed item is selected by none.
C25_ErrorItemRetried ==
  /\ (batch.last.status \in BatchError \cup ExtractionError \cup DownloadError)
        => batch.last.status \in StageStatuses(batch.last.stage)
  /\ \A n \in DOMAIN Stages(impl) : "processed" \notin StageStatuses(Stages(impl)[n])

(* ---------------------------------------------------------------------- *)
(* Batch selection with a limit: DatabaseManager.get_items_to_process      *)
(* (AR), DatabaseManagerBR.get_items_by_status (BR)                        *)
(* ---------------------------------------------------------------------- *)
MaxLimit == 2
MaxClock == 3

Eligible(its, statuses) == {i \in DOMAIN its : its[i].status \in statuses}

(* AR: SELECT ... WHERE processing_status IN (...) LIMIT ?, no ORDER BY:   *)
(* the first rows of the table.  The only result is given as a set of ids. *)
get_items_to_process_limit(its, statuses, limit) ==
  LET q == get_items_to_process(its, statuses)
  IN {{q[k] : k \in 1..(IF limit < Len(q) THEN limit ELSE Len(q))}}

(* BR: ... ORDER BY last_processed_timestamp ASC LIMIT ?: any choice of    *)
(* limit rows none of which is younger than a row left out; rows with      *)
(* equal timestamps come in an order SQL does not fix.                     *)
get_items_by_status(its, stamps, statuses, limit) ==
  LET E == Eligible(its, statuses)
      n == IF limit < Cardinality(E) THEN limit ELSE Cardinality(E)
  IN {S \in SUBSET E :
        /\ Cardinality(S) = n
        /\ \A a \in S, b \in E \ S : stamps[a] <= stamps[b]}

(* update_item_status: BR sets last_processed_timestamp =                  *)
(* CURRENT_TIMESTAMP with the status, AR writes the status alone.          *)
stamp_status(im, stamps, id, now) ==
  IF im = "BR" THEN [stamps EXCEPT ![id] = now] ELSE stamps

RetryStatuses == {"pending_download", "error"}

InitSelect ==
  /\ impl \in Impl
  /\ items = [i \in 1..BatchSize |->
                ItemRow([oai |-> NoneV, url |-> ToString(i), mode |-> "oai",
                         status |-> "pending_download"])]
  /\ files = << >>
  /\ last = NoLast
  /\ firstId = [k \in Keys |-> 0]
  /\ firstFile = NoFirstFile
  /\ procs = IdleProcs
  /\ dl = IdleDl(download_max_retries)
  /\ disk = NoDisk
  /\ hv = IdleHv
  /\ kw = IdleKw
  /\ batch \in {[IdleBatch EXCEPT !.pc = "select", !.limit = l,
                                  !.stamps = [i \in 1..BatchSize |-> 0],
                                  !.counts = [i \in 1..BatchSize |-> 0]] :
                  l \in 1..MaxLimit}

(* One batch: the store is asked for at most limit retryable items; each   *)
(* is handled and ends processed, or in error (those of F).  counts tells  *)
(* how often an item was selected, up to 2.                                *)
SelectBatch(S, F) ==
  /\ batch.pc = "select"
  /\ S # {}
  /\ S \in (IF impl = "AR"
              THEN get_items_to_process_limit(items, RetryStatuses, batch.limit)
              ELSE get_items_by_status(items, batch.stamps, RetryStatuses, batch.limit))
  /\ F \subseteq S
  /\ items' = [i \in DOMAIN items |->
                 IF i \in S
                   THEN [items[i] EXCEPT !.status = IF i \in F THEN "error" ELSE "processed"]
                   ELSE items[i]]
  /\ batch' = [batch EXCEPT
                 !.stamps = [i \in DOMAIN @ |->
                               IF i \in S THEN stamp_status(impl, @, i, batch.clock)[i]
                                          ELSE @[i]],
                 !.counts = [i \in DOMAIN @ |->
                               IF i \in S /\ @[i] < 2 THEN @[i] + 1 ELSE @[i]]]
  /\ UNCHANGED <<impl, files, last, firstId, firstFile, procs, dl, disk, hv, kw>>

(* A second passes on the clock CURRENT_TIMESTAMP reads.                   *)
Tick ==
  /\ batch.pc = "select"
  /\ batch.clock < MaxClock
  /\ batch' = [batch EXCEPT !.clock = @ + 1]
  /\ UNCHANGED <<impl, items, files, last, firstId, firstFile, procs, dl, disk, hv, kw>>

NextSelect ==
  \/ \E S \in SUBSET (1..BatchSize) : \E F \in SUBSET S : SelectBatch(S, F)
  \/ Tick

SpecSelect == InitSelect /\ [][NextSelect]_vars

\* C26: no item is selected a second time while an item that has been
\* eligible all along has not been selected once: batches go through the
\* eligible items least recently attempted first, so an item that keeps
\* failing does not starve the others.
C26_NoStarvation ==
  batch.pc = "select" =>
     \A a, b \in DOMAIN batch.counts :
        (batch.counts[a] >= 2 /\ items[b].status \in RetryStatuses)
           => batch.counts[b] >= 1

(* The steps that are one call of the store's upsert and nothing else: a   *)
(* BR harvest step also sets the status of the row it upserted.            *)
IsStoreUpsert(im, l) == l.op = "upsert" \/ (im = "AR" /\ l.op = "discover")

\* C27: an upsert for a key that already has a row leaves the row's
\* processing_status as it was, whatever status the caller passed, and
\* returns that stored status.
C27_UpsertKeepsStatus ==
  [][(IsStoreUpsert(impl, last') /\ ~last'.new /\ last'.id \in DOMAIN items)
       => /\ items'[last'.id].status = items[last'.id].status
          /\ last'.status = items[last'.id].status]_vars

FileSuccess == {"downloaded", "skipped_exists", FILE_DOWNLOAD_SUCCESS, FILE_DOWNLOAD_SKIPPED_EXIST}

\* C28: every row of the files table has its download timestamp set if and
\* only if its download_status is a terminal success.
C28_TimestampIffSuccess ==
  \A i \in DOMAIN files : files[i].ts <=> files[i].status \in FileSuccess

(* ---------------------------------------------------------------------- *)
(* Store failures: the except sqlite3.Error branches of the store          *)
(* ---------------------------------------------------------------------- *)
(* update_item_status when the UPDATE raises sqlite3.Error: the error is   *)
(* logged, the transaction rolled back, and the method returns as it does  *)
(* on success.                                                             *)
update_item_status_failed(its, id, s) == its

(* One pass of the for loop in which the write of the item's final status  *)
(* fails in the store: the in-progress mark is what stays, and the loop    *)
(* goes on as after a successful write.                                    *)
BatchItemStoreFailure(o) ==
  /\ batch.pc = "loop"
  /\ o \in StageOutcomes(CurrentStage)
  /\ LET id == batch.queue[batch.i]
         r == process_item(CurrentStage, items, id, o)
         marked == update_item_status(items, id, StageProcessing(CurrentStage))
     IN /\ ~r.last.escaped
        /\ items' = update_item_status_failed(marked, id, r.last.status)
        /\ batch' = [batch EXCEPT
                       !.raised = IF r.last.raised THEN @ \cup {id} ELSE @,
                       !.handled = @ \cup {id},
                       !.last = [r.last EXCEPT !.stage = CurrentStage,
                                               !.status = StageProcessing(CurrentStage),
                                               !.store_failed = TRUE],
                       !.i = @ + 1,
                       !.pc = IF batch.i = Len(batch.queue) THEN "stage_done" ELSE "loop"]
  /\ UNCHANGED <<impl, files, last, firstId, firstFile, procs, dl, disk, hv, kw>>

NextBatchStore ==
  \/ BatchStart
  \/ \E o \in ItemOutcomes : BatchItem(o)
  \/ \E o \in ItemOutcomes : BatchItemStoreFailure(o)
  \/ BatchKill
  \/ BatchNextStage

SpecBatchStore == InitBatch /\ [][NextBatchStore]_vars

\* C29: once a write to the store has failed, the run has ended: no later
\* item is handled and no later stage is started as if the write had taken
\* effect.
C29_StoreFailureEndsRun ==
  [][batch.last.store_failed => (batch' = batch /\ items' = items)]_vars

\* C30: set_item_status rejects a transition that is not in the transition
\* table: a call that asks to move a processed Item to an in-progress status
\* leaves the stored status processed.
C30_RejectsInvalidTransition ==
  [][\A i \in DOMAIN items :
        (/\ last'.op = "update_item_status"
         /\ last'.id = i
         /\ items[i].status = STATUS_PROCESSED
         /\ last'.status \in {"processing", "processing_pdf_download"})
           => items'[i].status = STATUS_PROCESSED]_vars

(***************************************************************************)
(* Discovery followed by processing: the harvesters fill the table, then   *)
(* the orchestrator runs its stages over it.                               *)
(***************************************************************************)

(* Scraper.run (AR), OAI phase, before the processing loop starts.         *)
HarvestThenProcessAR(rec) ==
  /\ batch.pc = "idle"
  /\ AR_RegisterOAI(rec)

(* OAIHarvesterBR.harvest_repository, one record, before the stages run.   *)
HarvestThenProcessBR(rec, repo) ==
  /\ batch.pc = "idle"
  /\ BR_HarvestRecord(rec, repo)

NextPipeline ==
  \/ \E rec \in Records : HarvestThenProcessAR(rec)
  \/ \E rec \in RecordsBR, repo \in ReposBR : HarvestThenProcessBR(rec, repo)
  \/ BatchStart
  \/ \E o \in ItemOutcomes : BatchItem(o)
  \/ BatchKill
  \/ BatchNextStage

SpecPipeline == InitItems /\ [][NextPipeline]_vars

(* The statuses the OAI harvester of an implementation leaves on an Item.  *)
HarvestStatuses(im) ==
  IF im = "AR" THEN {"pending_download"} ELSE {"pending_pdf_link", "pending_pdf_download"}

\* C31: every Item the OAI harvester created is picked up by a stage: when
\* a run over the harvested table has finished, no Item is still in the
\* status the harvester gave it.
C31_HarvestedIsSelected ==
  batch.pc = "finished" =>
     \A i \in DOMAIN items : items[i].status \notin HarvestStatuses(impl)

(***************************************************************************)
(* A harvest that can be killed between two requests.                      *)
(***************************************************************************)

(* The process dies while a page is being fetched: what the harvester      *)
(* holds in memory (AR: the identifiers list of get_identifiers) is gone,  *)
(* the table keeps what was written to it.                                 *)
HvKill ==
  /\ hv.pc = "request"
  /\ hv.pages > 0
  /\ hv' = [hv EXCEPT !.pc = "killed", !.identifiers = << >>]
  /\ UNCHANGED <<impl, items, files, last, firstId, firstFile, procs, dl, disk, batch, kw>>

NextHarvestKill ==
  \/ HvStart
  \/ \E resp \in Responses : HvRequest(resp)
  \/ HvNextRepo
  \/ AR_RegisterIdentifiers
  \/ HvKill

SpecHarvestKill == InitHarvest /\ [][NextHarvestKill]_vars

\* C32: when the harvest was killed while fetching a page, or has returned
\* after an abort, every non-deleted record of the pages received before
\* is an Item in the Store.
C32_EarlierPagesKept ==
  (hv.pc = "killed" \/ (hv.pc = "finished" /\ hv.end = "aborted")) =>
     \A o \in hv.records_seen : SelectItemByOai(items, o) # 0

(***************************************************************************)
(* Downloads by a process that can be killed while it streams.             *)
(***************************************************************************)

(* The process dies inside the chunk loop of an attempt: the bytes written *)
(* so far stay at the target path, nothing is logged, and the next run     *)
(* starts with fresh local variables.                                      *)
DlKill ==
  /\ dl.pc = "loop"
  /\ disk' = stream_to_file(disk, dl.target, "midstream")
  /\ dl' = IdleDl(dl.max_retries)
  /\ UNCHANGED <<impl, items, files, last, firstId, firstFile, procs, hv, batch, kw>>

NextDownloadKill ==
  \/ \E verifyOk \in BOOLEAN : DlCall(1, "pdf", "f1", TRUE, verifyOk)
  \/ \E o \in Outcomes : DlAttempt(o)
  \/ DlFinish
  \/ DlKill

SpecDownloadKill == InitDownload /\ [][NextDownloadKill]_vars

\* C33: whenever a download call records a terminal-success status for its
\* key, the file at its target path is one that an attempt streamed to the
\* end; a partial file left by a killed run is never recorded as a success.
C33_SuccessNeedsCompleteFetch ==
  [][(dl.pc = "log" /\ dl'.pc = "done" /\ dl'.ret \in SuccessStatuses)
        => disk[dl.target] = "full"]_vars

(***************************************************************************)
(* Two orchestrator runs overlapping on one Store.  Each run reads its     *)
(* list of ids once, then handles them one by one; the two status writes   *)
(* of an item (in-progress mark, final status) are separate transactions.  *)
(***************************************************************************)

(* The stage the two runs are in: the AR loop, the BR download stage.      *)
RaceStage(im) == IF im = "AR" THEN "process" ELSE "pdf_download"

InitRaceBatch ==
  /\ impl \in Impl
  /\ items = [i \in 1..BatchSize |->
                ItemRow([oai |-> NoneV, url |-> ToString(i), mode |-> "oai",
                         status |-> IF impl = "AR" THEN "pending_download"
                                                   ELSE "awaiting_pdf_download"])]
  /\ files = << >>
  /\ last = NoLast
  /\ firstId = [k \in Keys |-> 0]
  /\ firstFile = NoFirstFile
  /\ procs = IdleProcs
  /\ dl = IdleDl(download_max_retries)
  /\ disk = NoDisk
  /\ hv = IdleHv
  /\ batch = IdleBatch
  /\ kw = IdleKw

(* items_to_process_ids = get_items_to_process(statuses=...)               *)
RunSelect(p) ==
  /\ procs[p].pc = "idle"
  /\ LET q == IF impl = "AR"
                THEN get_items_to_process(items, StageStatuses(RaceStage(impl)))
                ELSE get_items_to_process_br(items, StageStatuses(RaceStage(impl)))
     IN procs' = [procs EXCEPT ![p] = [pc |-> IF q = << >> THEN "done" ELSE "mark",
                                       queue |-> q, i |-> 1]]
  /\ UNCHANGED <<impl, items, files, last, firstId, firstFile, dl, disk, hv, batch, kw>>

(* update_item_status(item_id, 'processing') at the top of the loop body.  *)
RunMark(p) ==
  /\ procs[p].pc = "mark"
  /\ items' = update_item_status(items, procs[p].queue[procs[p].i],
                                 StageProcessing(RaceStage(impl)))
  /\ procs' = [procs EXCEPT ![p].pc = "handle"]
  /\ UNCHANGED <<impl, files, last, firstId, firstFile, dl, disk, hv, batch, kw>>

(* The rest of the loop body, up to the final status write.                *)
RunHandle(p, o) ==
  /\ procs[p].pc = "handle"
  /\ o \in StageOutcomes(RaceStage(impl))
  /\ LET id == procs[p].queue[procs[p].i]
         r == process_item(RaceStage(impl), items, id, o)
     IN /\ items' = [items EXCEPT ![id].status = r.last.status]
        /\ procs' = [procs EXCEPT
                       ![p].pc = IF procs[p].i = Len(procs[p].queue) THEN "done" ELSE "mark",
                       ![p].i = @ + 1]
  /\ UNCHANGED <<impl, files, last, firstId, firstFile, dl, disk, hv, batch, kw>>

NextRaceBatch ==
  \/ \E p \in Procs : RunSelect(p)
  \/ \E p \in Procs : RunMark(p)
  \/ \E p \in Procs, o \in ItemOutcomes : RunHandle(p, o)

SpecRaceBatch == InitRaceBatch /\ [][NextRaceBatch]_vars

\* C34: with two runs overlapping on one Store, no step of either run moves
\* an item out of PROCESSED.
C34_ProcessedStaysProcessed ==
  [][\A i \in DOMAIN items :
        items[i].status = STATUS_PROCESSED => items'[i].status = STATUS_PROCESSED]_vars

(* The in-progress statuses the stages write before handling an item.      *)
InProgress ==
  {"processing", "processing_html", "processing_pdf_link", "processing_pdf_download"}

\* C35: when a stage's batch has ended without the process being killed, no
\* item the batch marked is left in an in-progress status, also when
\* handling an item raised an exception.
C35_NoItemLeftInProgress ==
  batch.pc \in {"stage_done", "finished", "aborted"} =>
     \A id \in batch.handled : items[id].status \notin InProgress

(***************************************************************************)
(* The batch run with the downloader and the files table in place: the     *)
(* download of an item's PDF goes through download_resource and its        *)
(* result is what the loop body decides on.                                *)
(***************************************************************************)

(* The requests of one download_resource call: the first nfail of them end *)
(* in kind, the next one succeeds.                                         *)
DlInputs ==
  [pathOk : BOOLEAN, verifyOk : BOOLEAN, nfail : 0..(download_max_retries + 1),
   kind : {"timeout", "http_404", "midstream"}]

(* The retry loop of download_resource, run to its end.                    *)
RECURSIVE run_attempts(_, _, _, _)
run_attempts(im, d, dsk, inp) ==
  IF d.pc # "loop" THEN [dl |-> d, disk |-> dsk]
  ELSE LET o == IF d.calls < inp.nfail THEN inp.kind ELSE "ok"
       IN run_attempts(im, download_attempt(im, d, o), disk_after_attempt(dsk, d, o), inp)

(* A variant that returns the outcome without the final write to the       *)
(* files table.                                                            *)
download_resource_unlogged(im, fs, dsk, item, type, url, inp) ==
  LET d0 == DlState("start", download_max_retries, item, type, url,
                    TargetPath(item, type, url), 0, "pending", << >>, NoneV, 0)
      s == IF im = "AR" THEN download_start_ar(fs, dsk, d0, inp.pathOk, inp.verifyOk)
                        ELSE download_start_br(fs, dsk, d0, inp.pathOk)
      a == run_attempts(im, s.dl, dsk, inp)
  IN IF a.dl.pc = "done"
       THEN [status |-> a.dl.ret, files |-> s.files, disk |-> dsk]
       ELSE [status |-> a.dl.final, files |-> s.files, disk |-> a.disk]

(* ResourceDownloader.download_resource / ResourceDownloaderBR             *)
(* .download_resource, one whole call: the checks before the loop, the     *)
(* loop, the final write, the returned status.                             *)
download_resource(im, fs, dsk, item, type, url, inp) ==
  LET d0 == DlState("start", download_max_retries, item, type, url,
                    TargetPath(item, type, url), 0, "pending", << >>, NoneV, 0)
      s == IF im = "AR" THEN download_start_ar(fs, dsk, d0, inp.pathOk, inp.verifyOk)
                        ELSE download_start_br(fs, dsk, d0, inp.pathOk)
      a == run_attempts(im, s.dl, dsk, inp)
  IN IF a.dl.pc = "done"
       THEN [status |-> a.dl.ret, files |-> s.files, disk |-> dsk]
       ELSE [status |-> a.dl.final, files |-> download_finish(im, s.files, a.dl),
             disk |-> a.disk]

(* The statuses download_resource returns that start with 'failed' (AR).   *)
FailedStatusesAR ==
  {FailStatus("AR", o) : o \in Outcomes \ {"ok"}} \cup {"failed_path_error"}

(* How the loop body reads the returned status: AR tests                   *)
(* download_status.startswith('failed'), BR tests membership in            *)
(* ('downloaded', 'skipped_exists').                                       *)
download_ok(im, status) ==
  IF im = "AR" THEN status \notin FailedStatusesAR ELSE status \in SuccessStatuses

(* The stages whose loop body calls the downloader.                        *)
DownloadStages == {"process", "pdf_download"}

(* The PDF URL of an item: one per item, each under the item's own         *)
(* directory of the output tree.                                           *)
PdfUrl(id) == IF id = 1 THEN "f1" ELSE "f2"

InitBatchFiles ==
  /\ impl \in Impl
  /\ items = [i \in 1..Cardinality(FileURLs) |->
                ItemRow([oai |-> NoneV, url |-> ToString(i), mode |-> "oai",
                         status |-> Discovered(impl)])]
  /\ files = << >>
  /\ last = NoLast
  /\ firstId = [k \in Keys |-> 0]
  /\ firstFile = NoFirstFile
  /\ procs = IdleProcs
  /\ dl = IdleDl(download_max_retries)
  /\ disk = NoDisk
  /\ hv = IdleHv
  /\ batch = [IdleBatch EXCEPT !.resolved = [i \in 1..Cardinality(FileURLs) |-> {}]]
  /\ kw = IdleKw

(* One pass of a loop whose body does not download (BR: HTML stage, link   *)
(* stage).                                                                 *)
BatchItemResolve(o) ==
  /\ batch.pc = "loop"
  /\ CurrentStage \notin DownloadStages
  /\ BatchItem(o)

(* One pass of a loop whose body downloads the item's PDF: rv is what the  *)
(* resolver did (AR), has_pdf whether the metadata carry a PDF URL.        *)
BatchItemFiles(rv, has_pdf, inp) ==
  /\ batch.pc = "loop"
  /\ CurrentStage \in DownloadStages
  /\ impl = "BR" => rv = "found"
  /\ LET id == batch.queue[batch.i]
         url == PdfUrl(id)
         invoked == has_pdf /\ rv = "found"
         d == download_resource(impl, files, disk, id, "pdf", url, inp)
         o == [snapshot |-> TRUE, oai_pdf |-> has_pdf, page |-> "html", resolver |-> rv,
               download |-> IF ~invoked THEN "none"
                            ELSE IF download_ok(impl, d.status) THEN "downloaded"
                            ELSE "failed",
               thumbnail |-> "none"]
         r == process_item(CurrentStage, items, id, o)
     IN /\ ~invoked => inp = [pathOk |-> TRUE, verifyOk |-> TRUE, nfail |-> 0,
                              kind |-> "timeout"]
        /\ items' = r.items
        /\ files' = IF invoked THEN d.files ELSE files
        /\ disk' = IF invoked THEN d.disk ELSE disk
        /\ batch' = [batch EXCEPT
                       !.raised = IF r.last.raised THEN @ \cup {id} ELSE @,
                       !.handled = @ \cup {id},
                       !.last = [r.last EXCEPT !.stage = CurrentStage],
                       !.resolved[id] = IF invoked THEN {url} ELSE {},
                       !.i = @ + 1,
                       !.pc = IF batch.i = Len(batch.queue) THEN "stage_done" ELSE "loop"]
  /\ UNCHANGED <<impl, last, firstId, firstFile, procs, dl, hv, kw>>

NextBatchFiles ==
  \/ BatchStart
  \/ \E o \in ItemOutcomes : BatchItemResolve(o)
  \/ \E rv \in {"raises", "none", "found"}, has_pdf \in BOOLEAN, inp \in DlInputs :
        BatchItemFiles(rv, has_pdf, inp)
  \/ BatchNextStage

SpecBatchFiles == InitBatchFiles /\ [][NextBatchFiles]_vars

(* The files table holds a terminal-success row for (item, url).           *)
HasArtifact(fs, item, url) ==
  \E k \in DOMAIN fs :
     fs[k].item = item /\ fs[k].url = url /\ fs[k].status \in SuccessStatuses

C37_OtherKeysUntouched ==
  [][last'.op = "log_file" =>
       \A k \in DOMAIN files :
          (files[k].item # last'.item \/ files[k].url # last'.url) =>
             (k \in DOMAIN files' /\ files'[k] = files[k])]_vars

\* C38: a response page with zero records and a fresh non-empty
\* resumptionToken does not end the harvest: the harvester goes on to the
\* next request with that token, on the first page as on later ones.
C38_EmptyPageContinues ==
  [][(/\ hv.pc = "request"
      /\ hv'.reqs = hv.reqs + 1
      /\ hv'.resp = "page"
      /\ hv'.served = hv.served
      /\ hv'.deleted_seen = {}
      /\ hv'.resp_token \notin {NoToken, hv.token})
        => (hv'.pc = "request" /\ hv'.token = hv'.resp_token)]_vars

(***************************************************************************)
(* A harvest with a record limit configured: get_identifiers(max_records)  *)
(* in AR, config 'max_records_oai_per_repo' in BR.                         *)
(***************************************************************************)
MaxRecords == 2

HvStartLimit(n) ==
  /\ hv.pc = "idle"
  /\ kw.pc = "idle"
  /\ hv' = start_repository([IdleHv EXCEPT
                               !.caller = IF impl = "AR" THEN "run" ELSE "run_harvest",
                               !.max_records = n], 1)
  /\ UNCHANGED <<impl, items, files, last, firstId, firstFile, procs, dl, disk, batch, kw>>

NextHarvestLimit ==
  \/ \E n \in 1..MaxRecords : HvStartLimit(n)
  \/ \E resp \in Responses : HvRequest(resp)
  \/ HvNextRepo
  \/ AR_RegisterIdentifiers

SpecHarvestLimit == InitHarvest /\ [][NextHarvestLimit]_vars

\* C39: with a record limit max_records, one harvest of a repository
\* returns or upserts at most max_records non-deleted records, and once the
\* limit is reached no further page request is due, whatever
\* resumptionToken the last page carried.
C39_RecordLimit ==
  hv.max_records > 0 =>
     /\ Len(hv.identifiers) <= hv.max_records
     /\ hv.upserts <= hv.max_records
     /\ (Len(hv.identifiers) >= hv.max_records \/ hv.upserts >= hv.max_records)
           => hv.pc # "request"

(* The limit was reached on a page that offered more records than the      *)
(* limit and carried a resumptionToken.                                    *)
C39_Witness ==
  /\ hv.max_records = 1
  /\ hv.pc = "repo_done"
  /\ hv.end = "done"
  /\ hv.resp = "page"
  /\ hv.resp_token # NoToken
  /\ hv.served = 2
  /\ (Len(hv.identifiers) = 1 \/ hv.upserts = 1)

\* C40: when the search of a keyword is over, the search function has
\* returned (its count of new items) and every item link of the result
\* pages it fetched is registered in the Store.
C40_SearchRegistersAndReturns ==
  kw.pc = "keyword_done" =>
     /\ kw.end # "raised"
     /\ \A u \in kw.offered : SelectItemByUrl(items, u) # 0
====
